---- MODULE Spec2Model ----
(***************************************************************************)
(* One chat turn of the streaming pipeline: ChatService.event_stream       *)
(* driving stream_graph (call_model <-> tools loop), the message store,    *)
(* and the background title task.                                          *)
(***************************************************************************)
EXTENDS Integers, Sequences, FiniteSets, TLC

\* ---------------------------------------------------------------- bounds
MaxPrior == 2        \* messages already stored in the conversation
MaxChunks == 2       \* streamed chunks per turn
MaxModelCalls == 2   \* call_model executions per turn
MaxToolCalls == 1    \* tool calls requested by the model per turn
MaxSessions == 2     \* login sessions created
MaxActive == 51      \* sessions one user holds active at a time
MaxOutputLen == 502  \* characters of a stringified tool output
MaxChats == 2        \* conversations created
MaxFileChunks == 4   \* chunks chunk_text makes of one file
MaxThreadLen == 8    \* messages in the state of a LangGraph thread

\* ------------------------------------------------------- program constants
MAX_MESSAGE_COUNT_THRESHOLD == 3
HistoryWindow == 20
ResultLimit == 500

None == "None"
TimeoutError == "TimeoutError"
OtherError == "Exception"
Exceptions == {TimeoutError, OtherError}

\* chat_stream always hands the request's database session to event_stream
db == TRUE

\* the registry built by get_tools(include_memory=True)
CatchingTools == {"search_user_documents", "save_user_memory", "recall_user_memories"}
InfallibleTools == {"save_successful_approach", "recall_similar_experiences"}
Tools == {"tavily_search"} \cup CatchingTools \cup InfallibleTools

\* lengths of the stringified tool outputs that are exercised
OutputLens == {20, 501}

\* shapes of an on_chat_model_stream chunk: text content and/or a named
\* tool_call_chunk
ChunkShapes ==
    {[content |-> c, tool |-> None] : c \in {"", "a", "b"}}
    \cup {[content |-> "", tool |-> t] : t \in Tools}
    \cup {[content |-> "a", tool |-> "tavily_search"]}

VARIABLES
    session_id,          \* conversation id of the request, or None
    prior_count,         \* messages the conversation held when the turn began
    pc,                  \* position of event_stream
    messages,            \* chat_messages rows of the conversation, oldest first
    last_message_at,     \* number of updates of the session's last_message_at
    previous_messages,   \* event_stream local
    events,              \* units yielded by event_stream so far
    token_count,         \* event_stream local
    has_content,         \* event_stream local
    assistant_response,  \* event_stream local
    message_count,       \* event_stream local, -1 until read
    node,                \* graph node being executed
    phase,               \* position inside the node
    model_calls,         \* call_model executions so far
    chunks,              \* chunks streamed by the model in this turn
    tool_calls,          \* tool calls of the latest model response, still pending
    graph_config,        \* the _graph_config context variable
    title_task,          \* state of generate_title_task
    timeout_raised,      \* history: a TimeoutError was raised somewhere in the turn
    failed_tools,        \* history: failing tool invocations
    error_cause,         \* history: the step whose exception ended the turn
    yielded,             \* history: events yielded by stream_graph so far
    cancelled_at,        \* history: where the generator stood when its consumer left
    graph_input,         \* what stream_graph handed to the graph: checkpointer, messages
    turn,                \* concurrent turns: per turn its config, position and loop locals
    context,             \* value of the context variable _graph_config in each turn's task
    stored,              \* concurrent turns: the messages stored per conversation
    search,              \* one call of _search_documents_impl: inputs and result
    caller,              \* callers of get_async_checkpointer / get_async_store
    instance,            \* module global _checkpointer / _store (0 is None)
    conn_pool,           \* module global _pool (0 is None)
    setup_completed,     \* module global _setup_completed
    created,             \* history: pools and instances constructed so far
    pool_env,            \* which of the two modules, and whether OPENAI_API_KEY is set
    app,                 \* position of the application lifespan
    rows,                \* chat_messages table: rows in commit order
    loaded,              \* the latest get_last_n_messages call and what it returned
    failure,             \* an exception inside event_stream, settings.ENVIRONMENT, the event sent
    sessions,            \* rows of the sessions table
    session_count,       \* history: sessions created so far (their ids are 1..session_count)
    issued,              \* history: the token pairs handed out
    outcome,             \* the latest AuthService call: its arguments and how it ended
    logins,              \* active sessions counted per user, and the latest delete_all_sessions
    relayed,             \* the latest on_tool_end event and what stream_graph yielded for it
    thread,              \* the messages of a LangGraph thread, and the list call_model passed on last
    upload,              \* the uploaded_files row process_file works on, and where the execution stands
    chat                 \* the chat_sessions and chat_messages rows, and the latest request to /chat/stream

single == <<session_id, prior_count, pc, messages, last_message_at, previous_messages, events,
          token_count, has_content, assistant_response, message_count, node,
          phase, model_calls, chunks, tool_calls, graph_config, title_task,
          timeout_raised, failed_tools, error_cause, yielded, cancelled_at, graph_input>>

turns == <<turn, context, stored>>
pool == <<caller, instance, conn_pool, setup_completed, created, pool_env, app>>
msgstore == <<rows, loaded>>
auth == <<sessions, session_count, issued, outcome>>
extras == <<logins, relayed, thread, upload, chat>>
aux == <<msgstore, failure, auth, extras>>
others == <<turns, search, pool, aux>>
vars == <<single, others>>
\* state no step of an uncancelled turn touches
rest == <<cancelled_at, others>>
store == <<messages, last_message_at>>
locals == <<previous_messages, token_count, has_content, assistant_response, message_count>>
graph == <<node, phase, model_calls, chunks, tool_calls, graph_config, yielded>>

\* ------------------------------------------------------------- helpers
Min(a, b) == IF a < b THEN a ELSE b

RECURSIVE Concat(_)
Concat(s) == IF s = <<>> THEN "" ELSE Head(s) \o Concat(Tail(s))

SelectIdx(s, P(_)) == {i \in 1..Len(s) : P(s[i])}

\* ------------------------------------------------------- message store
Message(role, content) == [role |-> role, content |-> content]

\* variant: the row is added but never committed
save_message_uncommitted(msgs, role, content) == msgs

\* variant: the newest row of the same role is overwritten
save_message_overwrites(msgs, role, content) ==
    IF msgs # <<>> /\ msgs[Len(msgs)].role = role
    THEN [msgs EXCEPT ![Len(msgs)] = Message(role, content)]
    ELSE Append(msgs, Message(role, content))

\* MessageService.save_message: add, commit, refresh
save_message(msgs, role, content) == Append(msgs, Message(role, content))

\* MessageService.get_last_n_messages: newest n, returned oldest first
get_last_n_messages(msgs, n) ==
    SubSeq(msgs, Len(msgs) - Min(n, Len(msgs)) + 1, Len(msgs))

\* MessageService.count_messages
count_messages(msgs) == Len(msgs)

\* a conversation that already holds n messages, user and assistant alternating
PriorMessages(n) ==
    [i \in 1..n |-> Message(IF i % 2 = 1 THEN "user" ELSE "assistant", "h")]

user_input == "q"

\* ------------------------------------------------------------ SSE units
Connected == [type |-> "comment", text |-> "connected"]
ContentEvent(content, token) == [type |-> "content", content |-> content, token |-> token]
FallbackContent == "I've searched for the information but couldn't generate a response. Please try again."
FallbackEvent == ContentEvent(FallbackContent, 0)
DoneEvent(total) == [type |-> "done", total_tokens |-> total]

TimeoutMessage == "Request timed out. The tool took too long to respond."
\* str(e) followed by the formatted traceback
OtherMessage == "boom\nTraceback (most recent call last): ..."

\* variant: the TimeoutError clause is missing, every exception gets the general text
ErrorEventNoTimeoutClause(kind) == [type |-> "error", error |-> OtherMessage]

\* the two except clauses of event_stream
ErrorEvent(kind) ==
    IF kind = TimeoutError
    THEN [type |-> "error", error |-> TimeoutMessage]
    ELSE [type |-> "error", error |-> OtherMessage]

IsTerminal(e) == e.type \in {"done", "error"}

\* ----------------------------------------------------- event normalizer
\* variant: the output is passed on whole
StreamGraphMapWhole(raw) ==
    IF raw.event = "on_tool_end"
        THEN <<[type |-> "tool_result", result |-> raw.output]>>
        ELSE <<>>

\* stream_graph: the events yielded for one astream_events event
StreamGraphMap(raw) ==
    IF raw.event = "on_chain_start" /\ raw.name = "tools"
        THEN <<[type |-> "tool_start", message |-> "Searching the web..."]>>
    ELSE IF raw.event = "on_tool_start"
        THEN <<[type |-> "tool_call", tool |-> raw.name]>>
    ELSE IF raw.event = "on_tool_end"
        THEN <<[type |-> "tool_result",
                result |-> [text |-> raw.output.text,
                            len |-> Min(raw.output.len, ResultLimit)]]>>
    ELSE IF raw.event = "on_chat_model_stream"
        THEN (IF raw.chunk.content # ""
                 THEN <<[type |-> "token", content |-> raw.chunk.content]>>
                 ELSE <<>>)
             \o (IF raw.chunk.tool # None
                 THEN <<[type |-> "tool_thinking", tool_name |-> raw.chunk.tool]>>
                 ELSE <<>>)
    ELSE <<>>

\* variant: the new token text is put in front of the accumulated text
RelayStatePrepends(st, ev) ==
    IF ev.type = "token"
    THEN [events |-> Append(st.events, ContentEvent(ev.content, st.token_count)),
          token_count |-> st.token_count + 1,
          has_content |-> TRUE,
          assistant_response |-> ev.content \o st.assistant_response]
    ELSE IF ev.type \in {"tool_start", "tool_thinking", "tool_call", "tool_result"}
    THEN [st EXCEPT !.events = Append(st.events, ev)]
    ELSE st

\* variant: any relayed event counts as content
RelayStateAnyContent(st, ev) ==
    IF ev.type = "token"
    THEN [events |-> Append(st.events, ContentEvent(ev.content, st.token_count)),
          token_count |-> st.token_count + 1,
          has_content |-> TRUE,
          assistant_response |-> st.assistant_response \o ev.content]
    ELSE IF ev.type \in {"tool_start", "tool_thinking", "tool_call", "tool_result"}
    THEN [st EXCEPT !.events = Append(st.events, ev), !.has_content = TRUE]
    ELSE st

\* variant: tool_thinking events are not relayed
RelayStateDropsThinking(st, ev) ==
    IF ev.type = "token"
    THEN [events |-> Append(st.events, ContentEvent(ev.content, st.token_count)),
          token_count |-> st.token_count + 1,
          has_content |-> TRUE,
          assistant_response |-> st.assistant_response \o ev.content]
    ELSE IF ev.type \in {"tool_start", "tool_call", "tool_result"}
    THEN [st EXCEPT !.events = Append(st.events, ev)]
    ELSE st

\* variant: the sequence number is not advanced
RelayStateNoIncrement(st, ev) ==
    IF ev.type = "token"
    THEN [events |-> Append(st.events, ContentEvent(ev.content, st.token_count)),
          token_count |-> st.token_count,
          has_content |-> TRUE,
          assistant_response |-> st.assistant_response \o ev.content]
    ELSE IF ev.type \in {"tool_start", "tool_thinking", "tool_call", "tool_result"}
    THEN [st EXCEPT !.events = Append(st.events, ev)]
    ELSE st

\* event_stream loop body: what one stream_graph event does to the locals
\* and to the yielded units
RelayState(st, ev) ==
    IF ev.type = "token"
    THEN [events |-> Append(st.events, ContentEvent(ev.content, st.token_count)),
          token_count |-> st.token_count + 1,
          has_content |-> TRUE,
          assistant_response |-> st.assistant_response \o ev.content]
    ELSE IF ev.type \in {"tool_start", "tool_thinking", "tool_call", "tool_result"}
    THEN [st EXCEPT !.events = Append(st.events, ev)]
    ELSE st

RECURSIVE RelayAll(_, _)
RelayAll(st, evs) ==
    IF evs = <<>> THEN st ELSE RelayAll(RelayState(st, Head(evs)), Tail(evs))

LoopState == [events |-> events, token_count |-> token_count,
              has_content |-> has_content, assistant_response |-> assistant_response]

\* one astream_events event passes through stream_graph and event_stream
Relay(raw) ==
    LET st == RelayAll(LoopState, StreamGraphMap(raw))
    IN  /\ yielded' = yielded \o StreamGraphMap(raw)
        /\ events' = st.events
        /\ token_count' = st.token_count
        /\ has_content' = st.has_content
        /\ assistant_response' = st.assistant_response

\* variant: the conditional edge always ends the graph
should_continue_always_end(calls) == "END"

\* variant: the conditional edge always goes to the tools node
should_continue_always_tools(calls) == "tools"

\* should_continue
should_continue(calls) == IF calls # <<>> THEN "tools" ELSE "END"

\* should_generate_title
should_generate_title(count) ==
    count = MAX_MESSAGE_COUNT_THRESHOLD \/ count > MAX_MESSAGE_COUNT_THRESHOLD

\* ------------------------------------------------- graph config, identity
Turns == {1, 2}
Callers == {1, 2, 3}
\* the call made by lifespan at startup; the others are made by requests
Startup == 1

\* a config without thread_id and user_id (None, {} or a config lacking both)
NoConfig == [thread_id |-> None, user_id |-> None]

\* stream_graph: the config handed to astream_events
stream_config(sid, uid) ==
    IF sid # None \/ uid # None THEN [thread_id |-> sid, user_id |-> uid] ELSE NoConfig

\* strings str(UUID) can produce; UUID(s) raises ValueError on the others
UUIDStrings == {"u1", "u2", "s1", "s2"}
ParseUUID(s) == IF s \in UUIDStrings THEN s ELSE None

\* _extract_user_and_session_id: the passed config first, then, for what is
\* still missing, the config stored in the context variable
extract_user_and_session_id(config, context_config) ==
    LET user1 == ParseUUID(config.user_id)
        session1 == ParseUUID(config.thread_id)
        fallback == user1 = None \/ session1 = None
    IN  [user_id |-> IF fallback /\ user1 = None
                     THEN ParseUUID(context_config.user_id) ELSE user1,
         session_id |-> IF fallback /\ session1 = None
                        THEN ParseUUID(context_config.thread_id) ELSE session1]

\* variant: one module-level global shared by all tasks
ContextSetGlobal(ctx, t, value) == [u \in Turns |-> value]

\* ContextVar.set in the task of turn t: other tasks keep their own value
ContextSet(ctx, t, value) == [ctx EXCEPT ![t] = value]

\* ContextVar.get in the task of turn t
ContextGet(ctx, t) == ctx[t]

\* a turn before its graph starts
NewTurn(config) ==
    [config |-> config, pc |-> "save_user", model_calls |-> 0, chunks |-> 0,
     tool_calls |-> <<>>, resolved |-> <<>>,
     loop |-> [events |-> <<>>, token_count |-> 0, has_content |-> FALSE,
               assistant_response |-> ""]]

Conversations == {"s1", "s2"}
TurnsIdle ==
    /\ turn = [t \in Turns |-> NewTurn(NoConfig)]
    /\ context = [t \in Turns |-> NoConfig]
    /\ stored = [s \in Conversations |-> <<>>]

\* ------------------------------------------------ _search_documents_impl
NoResult == [raised |-> FALSE, text |-> "", excerpts |-> <<>>]
SearchIdle ==
    search = [config |-> NoConfig, context_config |-> NoConfig, raises |-> None,
              msg |-> "", chunks |-> <<>>, called |-> FALSE, result |-> NoResult]

\* ------------------------------------------------ pools: module globals
PoolIdle ==
    /\ caller = [c \in Callers |-> [pc |-> "idle", attempt |-> 0, tries |-> 0, fallback |-> FALSE, result |-> 0,
                                  err |-> "none"]]
    /\ instance = 0
    /\ conn_pool = 0
    /\ setup_completed = FALSE
    /\ created = [pools |-> 0, instances |-> 0]
    /\ pool_env = [kind |-> "checkpointer", api_key |-> TRUE]
    /\ app = "init_db"

\* ------------------------------------------------ chat_messages table
NotLoaded == [called |-> FALSE, conversation |-> "s1", n |-> 0, result |-> <<>>, of |-> 0]
StoreIdle ==
    /\ rows = <<>>
    /\ loaded = NotLoaded

NoEvent == [type |-> "none", error |-> <<>>]
ErrIdle ==
    failure = [environment |-> "development", kind |-> "Exception", text |-> "",
               step |-> "graph", handled |-> FALSE, event |-> NoEvent]

\* tokens are kept as their decoded content; Garbage is any string that
\* jwt.decode rejects (bad signature, expired, malformed)
Garbage == [type |-> "garbage", user_id |-> "none", session_id |-> 0, iat |-> 0]
NoCall == [op |-> "none", token |-> Garbage, email |-> "", password |-> "",
           session_id |-> 0, user_id |-> "none", result |-> "none", message |-> ""]
AuthIdle ==
    /\ sessions = {}
    /\ session_count = 0
    /\ issued = {}
    /\ outcome = NoCall

LoginsIdle ==
    logins = [active |-> [u \in {"u1", "u3"} |-> 0], op |-> "none", user_id |-> "none",
              reported |-> 0]

RelayIdle == relayed = [raw |-> [event |-> "none"], yielded |-> <<>>]

ThreadIdle == thread = [messages |-> <<>>, passed |-> <<>>, node |-> "idle"]

UploadIdle ==
    upload = [in_db |-> TRUE, status |-> "pending", stored |-> 0, pc |-> "idle", text |-> "none",
              read_by |-> "none", chunks |-> 0, pending |-> 0, update_failed |-> FALSE]

NoRequest == [user_id |-> "none", session_id |-> 0, pc |-> "idle", loaded |-> FALSE,
              saved |-> 0, agent |-> FALSE]

ChatIdle == chat = [sessions |-> <<>>, messages |-> {}, request |-> NoRequest]

ExtrasIdle == LoginsIdle /\ RelayIdle /\ ThreadIdle /\ UploadIdle /\ ChatIdle

AuxIdle == StoreIdle /\ ErrIdle /\ AuthIdle /\ ExtrasIdle

\* --------------------------------------------------------------- Init
\* the single turn before event_stream runs
InitSingle ==
    /\ session_id \in {None, "s1"}
    /\ pc = "load"
    /\ prior_count \in 0..MaxPrior
    /\ session_id = None => prior_count = 0
    /\ messages = PriorMessages(prior_count)
    /\ last_message_at = 0
    /\ previous_messages = <<>>
    /\ events = <<>>
    /\ token_count = 0
    /\ has_content = FALSE
    /\ assistant_response = ""
    /\ message_count = -1
    /\ node = "START"
    /\ phase = "idle"
    /\ model_calls = 0
    /\ chunks = 0
    /\ tool_calls = <<>>
    /\ graph_config = None
    /\ title_task = "none"
    /\ timeout_raised = FALSE
    /\ failed_tools = <<>>
    /\ error_cause = [step |-> None, kind |-> None]
    /\ yielded = <<>>
    /\ cancelled_at = None
    /\ graph_input = [use_checkpointing |-> FALSE, previous_messages |-> <<>>,
                      checkpointer |-> FALSE, messages |-> <<>>]

Init ==
    /\ InitSingle
    /\ TurnsIdle /\ SearchIdle /\ PoolIdle /\ AuxIdle

\* variant: only TimeoutError is caught, any other exception leaves the generator
RaiseEscapes(kind, cause) ==
    /\ events' = IF kind = TimeoutError THEN Append(events, ErrorEvent(kind)) ELSE events
    /\ pc' = "finished"
    /\ error_cause' = [step |-> cause, kind |-> kind]
    /\ timeout_raised' = (timeout_raised \/ kind = TimeoutError)

\* the except clauses of event_stream: one error unit, generator returns
Raise(kind, cause) ==
    /\ events' = Append(events, ErrorEvent(kind))
    /\ pc' = "finished"
    /\ error_cause' = [step |-> cause, kind |-> kind]
    /\ timeout_raised' = (timeout_raised \/ kind = TimeoutError)

Persisting == session_id # None /\ db

\* ---------------------------------------------- event_stream, before the graph
LoadHistory ==
    /\ pc = "load"
    /\ previous_messages' =
         IF Persisting THEN get_last_n_messages(messages, HistoryWindow) ELSE <<>>
    /\ pc' = IF Persisting THEN "save_user" ELSE "connected"
    /\ UNCHANGED <<rest, graph_input, session_id, prior_count, store, events, token_count, has_content,
                   assistant_response, message_count, graph, title_task,
                   timeout_raised, failed_tools, error_cause>>

LoadHistoryRaises ==
    /\ pc = "load"
    /\ Persisting
    /\ \E kind \in Exceptions : Raise(kind, "load")
    /\ UNCHANGED <<rest, graph_input, session_id, prior_count, store, locals, graph, title_task, failed_tools>>

SaveUserMessage ==
    /\ pc = "save_user"
    /\ messages' = save_message(messages, "user", user_input)
    /\ pc' = "touch_user"
    /\ UNCHANGED <<rest, graph_input, session_id, prior_count, last_message_at, locals, events, graph, title_task,
                   timeout_raised, failed_tools, error_cause>>

\* commit raises (nothing stored) or refresh raises (row already committed)
SaveUserMessageRaises ==
    /\ pc = "save_user"
    /\ \E committed \in BOOLEAN :
         messages' = IF committed THEN save_message(messages, "user", user_input)
                     ELSE messages
    /\ \E kind \in Exceptions : Raise(kind, "save_user")
    /\ UNCHANGED <<rest, graph_input, session_id, prior_count, last_message_at, locals, graph, title_task, failed_tools>>

UpdateLastMessageAtUser ==
    /\ pc = "touch_user"
    /\ last_message_at' = last_message_at + 1
    /\ pc' = "connected"
    /\ UNCHANGED <<rest, graph_input, session_id, prior_count, messages, locals, events, graph, title_task,
                   timeout_raised, failed_tools, error_cause>>

UpdateLastMessageAtUserRaises ==
    /\ pc = "touch_user"
    /\ \E kind \in Exceptions : Raise(kind, "touch_user")
    /\ UNCHANGED <<rest, graph_input, session_id, prior_count, store, locals, graph, title_task, failed_tools>>

YieldConnected ==
    /\ pc = "connected"
    /\ events' = Append(events, Connected)
    /\ pc' = "open_graph"
    /\ UNCHANGED <<rest, graph_input, session_id, prior_count, store, locals, graph, title_task,
                   timeout_raised, failed_tools, error_cause>>

\* stream_graph up to the first astream_events event: checkpointer, store, graph
use_checkpointing(sid) == sid # None

\* variant: the loaded messages are always passed on
passed_previous_always(sid, prev) == prev

\* event_stream: the previous_messages argument of stream_graph (None is <<>>)
passed_previous(sid, prev) == IF ~use_checkpointing(sid) THEN prev ELSE <<>>

\* stream_graph: a checkpointer is fetched and attached
checkpointer_attached(use_cp, sid) == use_cp /\ sid # None

\* stream_graph: the messages given to the graph, prior ones then the input
input_messages(use_cp, prev) ==
    (IF ~use_cp /\ prev # <<>> THEN prev ELSE <<>>) \o <<Message("user", user_input)>>

OpenGraph ==
    /\ pc = "open_graph"
    /\ graph_input' =
         [use_checkpointing |-> use_checkpointing(session_id),
          previous_messages |-> passed_previous(session_id, previous_messages),
          checkpointer |-> checkpointer_attached(use_checkpointing(session_id), session_id),
          messages |-> input_messages(use_checkpointing(session_id),
                                      passed_previous(session_id, previous_messages))]
    /\ node' = "call_model"
    /\ phase' = "enter"
    /\ pc' = "stream"
    /\ UNCHANGED <<rest, session_id, prior_count, store, locals, events, model_calls, chunks, tool_calls,
                   graph_config, yielded, title_task, timeout_raised, failed_tools, error_cause>>

OpenGraphRaises ==
    /\ pc = "open_graph"
    /\ \E kind \in Exceptions : Raise(kind, "open_graph")
    /\ UNCHANGED <<rest, graph_input, session_id, prior_count, store, locals, graph, title_task, failed_tools>>

\* ------------------------------------------------------ call_model node
\* node entry: the guarded memory and file look-ups swallow their exceptions
CallModelEnter ==
    /\ pc = "stream" /\ node = "call_model" /\ phase = "enter"
    /\ model_calls < MaxModelCalls
    /\ model_calls' = model_calls + 1
    /\ tool_calls' = <<>>
    /\ phase' = "streaming"
    /\ \E lookup \in {None} \cup Exceptions :
         timeout_raised' = (timeout_raised \/ lookup = TimeoutError)
    /\ Relay([event |-> "on_chain_start", name |-> "call_model"])
    /\ UNCHANGED <<rest, graph_input, session_id, prior_count, pc, store, previous_messages, message_count, node,
                   chunks, graph_config, title_task, failed_tools, error_cause>>

\* tool calls the model has asked for so far in the turn
ToolCallsRequested ==
    Cardinality(SelectIdx(events, LAMBDA e : e.type = "tool_thinking"))

\* one streamed chunk of the model response
ModelChunk ==
    /\ pc = "stream" /\ node = "call_model" /\ phase = "streaming"
    /\ chunks < MaxChunks
    /\ \E chunk \in ChunkShapes :
         /\ chunk.tool # None =>
              model_calls < MaxModelCalls /\ ToolCallsRequested < MaxToolCalls
         /\ Relay([event |-> "on_chat_model_stream", name |-> "ChatOpenAI", chunk |-> chunk])
         /\ tool_calls' = IF chunk.tool # None THEN Append(tool_calls, chunk.tool)
                          ELSE tool_calls
    /\ chunks' = chunks + 1
    /\ UNCHANGED <<rest, graph_input, session_id, prior_count, pc, store, previous_messages, message_count, node, phase,
                   model_calls, graph_config, title_task, timeout_raised, failed_tools,
                   error_cause>>

\* the response is complete: the conditional edge picks the next node
ModelReturns ==
    /\ pc = "stream" /\ node = "call_model" /\ phase = "streaming"
    /\ node' = should_continue(tool_calls)
    /\ phase' = "enter"
    /\ UNCHANGED <<rest, graph_input, session_id, prior_count, pc, store, locals, events, model_calls, chunks, tool_calls,
                   graph_config, yielded, title_task, timeout_raised, failed_tools, error_cause>>

\* the model call raises: the graph raises, stream_graph logs and re-raises
ModelRaises ==
    /\ pc = "stream" /\ node = "call_model" /\ phase = "streaming"
    /\ \E kind \in Exceptions : Raise(kind, "model")
    /\ UNCHANGED <<rest, graph_input, session_id, prior_count, store, locals, graph, title_task, failed_tools>>

\* ----------------------------------------------------------- tools node
\* the text a tool returns from its own except clause
ToolErrorText(tool) ==
    IF tool = "search_user_documents" THEN "Error searching documents: boom"
    ELSE IF tool = "save_user_memory" THEN "Error saving memory: boom"
    ELSE "Error recalling memories: boom"

FailureTexts == {ToolErrorText(t) : t \in CatchingTools}

ToolsNodeEnter ==
    /\ pc = "stream" /\ node = "tools" /\ phase = "enter"
    /\ graph_config' = "config"
    /\ phase' = "ready"
    /\ Relay([event |-> "on_chain_start", name |-> "tools"])
    /\ UNCHANGED <<rest, graph_input, session_id, prior_count, pc, store, previous_messages, message_count, node,
                   model_calls, chunks, tool_calls, title_task, timeout_raised,
                   failed_tools, error_cause>>

ToolStart ==
    /\ pc = "stream" /\ node = "tools" /\ phase = "ready"
    /\ tool_calls # <<>>
    /\ phase' = "running"
    /\ Relay([event |-> "on_tool_start", name |-> Head(tool_calls)])
    /\ UNCHANGED <<rest, graph_input, session_id, prior_count, pc, store, previous_messages, message_count, node,
                   model_calls, chunks, tool_calls, graph_config, title_task,
                   timeout_raised, failed_tools, error_cause>>

\* the tool returns its result
ToolReturns ==
    /\ pc = "stream" /\ node = "tools" /\ phase = "running"
    /\ \E len \in OutputLens :
         Relay([event |-> "on_tool_end", name |-> Head(tool_calls),
                output |-> [text |-> "result", len |-> len]])
    /\ tool_calls' = Tail(tool_calls)
    /\ phase' = "ready"
    /\ UNCHANGED <<rest, graph_input, session_id, prior_count, pc, store, previous_messages, message_count, node,
                   model_calls, chunks, graph_config, title_task, timeout_raised,
                   failed_tools, error_cause>>

\* index in events' of the tool_result yielded by this step, 0 when none was
ReportedAt == IF Len(events') > Len(events) THEN Len(events') ELSE 0

\* a tool with its own except clause fails: the error text is its output
ToolFailsCaught ==
    /\ pc = "stream" /\ node = "tools" /\ phase = "running"
    /\ Head(tool_calls) \in CatchingTools
    /\ Relay([event |-> "on_tool_end", name |-> Head(tool_calls),
              output |-> [text |-> ToolErrorText(Head(tool_calls)), len |-> 20]])
    /\ \E kind \in Exceptions :
         timeout_raised' = (timeout_raised \/ kind = TimeoutError)
    /\ failed_tools' = Append(failed_tools, [tool |-> Head(tool_calls), at |-> ReportedAt])
    /\ tool_calls' = Tail(tool_calls)
    /\ phase' = "ready"
    /\ UNCHANGED <<rest, graph_input, session_id, prior_count, pc, store, previous_messages, message_count, node,
                   model_calls, chunks, graph_config, title_task, error_cause>>

\* tavily_search has no except clause: the exception leaves the tool, so no
\* on_tool_end event exists; ToolNode may turn it into an error ToolMessage ...
ToolRaisesHandled ==
    /\ pc = "stream" /\ node = "tools" /\ phase = "running"
    /\ Head(tool_calls) = "tavily_search"
    /\ Relay([event |-> "on_tool_error", name |-> Head(tool_calls)])
    /\ \E kind \in Exceptions :
         timeout_raised' = (timeout_raised \/ kind = TimeoutError)
    /\ failed_tools' = Append(failed_tools, [tool |-> Head(tool_calls), at |-> ReportedAt])
    /\ tool_calls' = Tail(tool_calls)
    /\ phase' = "ready"
    /\ UNCHANGED <<rest, graph_input, session_id, prior_count, pc, store, previous_messages, message_count, node,
                   model_calls, chunks, graph_config, title_task, error_cause>>

\* variant: no finally clause, _graph_config keeps the config when the tool raises
ToolRaisesPropagatesKeepsConfig ==
    /\ pc = "stream" /\ node = "tools" /\ phase = "running"
    /\ Head(tool_calls) = "tavily_search"
    /\ \E kind \in Exceptions : Raise(kind, "tool")
    /\ failed_tools' = Append(failed_tools, [tool |-> Head(tool_calls), at |-> 0])
    /\ UNCHANGED <<rest, graph_input, session_id, prior_count, store, locals, node, phase, model_calls, chunks,
                   tool_calls, graph_config, yielded, title_task>>

\* ... or let it through: the finally clause clears _graph_config, the graph raises
ToolRaisesPropagates ==
    /\ pc = "stream" /\ node = "tools" /\ phase = "running"
    /\ Head(tool_calls) = "tavily_search"
    /\ \E kind \in Exceptions : Raise(kind, "tool")
    /\ failed_tools' = Append(failed_tools, [tool |-> Head(tool_calls), at |-> 0])
    /\ graph_config' = None
    /\ UNCHANGED <<rest, graph_input, session_id, prior_count, store, locals, node, phase, model_calls, chunks,
                   tool_calls, yielded, title_task>>

\* all tool calls answered: clear _graph_config, edge back to call_model
ToolsNodeExit ==
    /\ pc = "stream" /\ node = "tools" /\ phase = "ready"
    /\ tool_calls = <<>>
    /\ graph_config' = None
    /\ node' = "call_model"
    /\ phase' = "enter"
    /\ Relay([event |-> "on_chain_end", name |-> "tools"])
    /\ UNCHANGED <<rest, graph_input, session_id, prior_count, pc, store, previous_messages, message_count,
                   model_calls, chunks, tool_calls, title_task, timeout_raised,
                   failed_tools, error_cause>>

\* --------------------------------------------- event_stream, after the graph
\* variant: the accumulated text is not tested
should_save_assistant_any(sid, response) == sid # None /\ db

\* the guard of the assistant save
should_save_assistant(sid, response) == sid # None /\ db /\ response # ""

\* astream_events is exhausted: fallback unit when no token was relayed
GraphEnd ==
    /\ pc = "stream" /\ node = "END"
    /\ events' = IF ~has_content THEN Append(events, FallbackEvent) ELSE events
    /\ pc' = IF should_save_assistant(session_id, assistant_response)
             THEN "save_assistant" ELSE "emit_done"
    /\ UNCHANGED <<rest, graph_input, session_id, prior_count, store, locals, graph, title_task,
                   timeout_raised, failed_tools, error_cause>>

SaveAssistantMessage ==
    /\ pc = "save_assistant"
    /\ messages' = save_message(messages, "assistant", assistant_response)
    /\ pc' = "touch_assistant"
    /\ UNCHANGED <<rest, graph_input, session_id, prior_count, last_message_at, locals, events, graph, title_task,
                   timeout_raised, failed_tools, error_cause>>

SaveAssistantMessageRaises ==
    /\ pc = "save_assistant"
    /\ \E committed \in BOOLEAN :
         messages' = IF committed
                     THEN save_message(messages, "assistant", assistant_response)
                     ELSE messages
    /\ \E kind \in Exceptions : Raise(kind, "save_assistant")
    /\ UNCHANGED <<rest, graph_input, session_id, prior_count, last_message_at, locals, graph, title_task, failed_tools>>

UpdateLastMessageAtAssistant ==
    /\ pc = "touch_assistant"
    /\ last_message_at' = last_message_at + 1
    /\ pc' = "count"
    /\ UNCHANGED <<rest, graph_input, session_id, prior_count, messages, locals, events, graph, title_task,
                   timeout_raised, failed_tools, error_cause>>

UpdateLastMessageAtAssistantRaises ==
    /\ pc = "touch_assistant"
    /\ \E kind \in Exceptions : Raise(kind, "touch_assistant")
    /\ UNCHANGED <<rest, graph_input, session_id, prior_count, store, locals, graph, title_task, failed_tools>>

CountMessages ==
    /\ pc = "count"
    /\ message_count' = count_messages(messages)
    /\ pc' = "get_session"
    /\ UNCHANGED <<rest, graph_input, session_id, prior_count, store, previous_messages, token_count, has_content,
                   assistant_response, events, graph, title_task,
                   timeout_raised, failed_tools, error_cause>>

CountMessagesRaises ==
    /\ pc = "count"
    /\ \E kind \in Exceptions : Raise(kind, "count")
    /\ UNCHANGED <<rest, graph_input, session_id, prior_count, store, locals, graph, title_task, failed_tools>>

\* asyncio.create_task(generate_title_task())
create_task(task) == "scheduled"

\* session look-up, then the title decision
GetSession ==
    /\ pc = "get_session"
    /\ title_task' = IF should_generate_title(message_count)
                     THEN create_task(title_task) ELSE title_task
    /\ pc' = "emit_done"
    /\ UNCHANGED <<rest, graph_input, session_id, prior_count, store, locals, events, graph,
                   timeout_raised, failed_tools, error_cause>>

GetSessionRaises ==
    /\ pc = "get_session"
    /\ \E kind \in Exceptions : Raise(kind, "get_session")
    /\ UNCHANGED <<rest, graph_input, session_id, prior_count, store, locals, graph, title_task, failed_tools>>

EmitDone ==
    /\ pc = "emit_done"
    /\ events' = Append(events, DoneEvent(token_count))
    /\ pc' = "finished"
    /\ UNCHANGED <<rest, graph_input, session_id, prior_count, store, locals, graph, title_task,
                   timeout_raised, failed_tools, error_cause>>

\* ------------------------------------------------- generate_title_task
\* variant: the failure of the title task is reported on the stream
TitleTaskExceptSurfaces(evs) == Append(evs, ErrorEvent(OtherError))

\* the except clause of generate_title_task: log, nothing reaches the stream
TitleTaskExcept(evs) == evs

TitleTaskStarts ==
    /\ title_task = "scheduled"
    /\ title_task' = "running"
    /\ UNCHANGED <<rest, graph_input, session_id, prior_count, pc, store, locals, events, graph,
                   timeout_raised, failed_tools, error_cause>>

TitleTaskSucceeds ==
    /\ title_task = "running"
    /\ title_task' = "succeeded"
    /\ UNCHANGED <<rest, graph_input, session_id, prior_count, pc, store, locals, events, graph,
                   timeout_raised, failed_tools, error_cause>>

TitleTaskRaises ==
    /\ title_task = "running"
    /\ title_task' = "failed"
    /\ events' = TitleTaskExcept(events)
    /\ UNCHANGED <<rest, graph_input, session_id, prior_count, pc, store, locals, graph,
                   timeout_raised, failed_tools, error_cause>>

\* ------------------------------------------------------- the consumer leaves
\* variant: a finally block stores whatever text was accumulated
CancelSavesPartial ==
    /\ pc \notin {"finished", "cancelled"}
    /\ pc' = "cancelled"
    /\ cancelled_at' = pc
    /\ messages' = IF should_save_assistant(session_id, assistant_response)
                   THEN save_message(messages, "assistant", assistant_response)
                   ELSE messages
    /\ UNCHANGED <<others, graph_input, session_id, prior_count, last_message_at, locals, events, graph,
                   title_task, timeout_raised, failed_tools, error_cause>>

\* the client disconnects or the response task is cancelled: GeneratorExit or
\* CancelledError is raised at the point where event_stream is suspended;
\* neither is an Exception, so no except clause runs and the generator ends
Cancel ==
    /\ pc \notin {"finished", "cancelled"}
    /\ pc' = "cancelled"
    /\ cancelled_at' = pc
    /\ UNCHANGED <<others, graph_input, session_id, prior_count, store, locals, events, graph, title_task,
                   timeout_raised, failed_tools, error_cause>>

Next ==
    \/ LoadHistory
    \/ LoadHistoryRaises
    \/ SaveUserMessage
    \/ SaveUserMessageRaises
    \/ UpdateLastMessageAtUser
    \/ UpdateLastMessageAtUserRaises
    \/ YieldConnected
    \/ OpenGraph
    \/ OpenGraphRaises
    \/ CallModelEnter
    \/ ModelChunk
    \/ ModelReturns
    \/ ModelRaises
    \/ ToolsNodeEnter
    \/ ToolStart
    \/ ToolReturns
    \/ ToolFailsCaught
    \/ ToolRaisesHandled
    \/ ToolRaisesPropagates
    \/ ToolsNodeExit
    \/ GraphEnd
    \/ SaveAssistantMessage
    \/ SaveAssistantMessageRaises
    \/ UpdateLastMessageAtAssistant
    \/ UpdateLastMessageAtAssistantRaises
    \/ CountMessages
    \/ CountMessagesRaises
    \/ GetSession
    \/ GetSessionRaises
    \/ EmitDone
    \/ TitleTaskStarts
    \/ TitleTaskSucceeds
    \/ TitleTaskRaises
    \/ Cancel

Spec == Init /\ [][Next]_vars

\* steps of the event_stream generator and of the graph it drives
GeneratorStep == Next /\ pc' # "cancelled" /\ ~(title_task # "none" /\ title_task' # title_task)
\* steps of the background title task
TitleTaskNext == TitleTaskStarts \/ TitleTaskSucceeds \/ TitleTaskRaises

\* the steps of a turn in which no statement of event_stream or of the graph
\* raises and whose consumer keeps reading until the stream ends
NextLive ==
    \/ LoadHistory
    \/ SaveUserMessage
    \/ UpdateLastMessageAtUser
    \/ YieldConnected
    \/ OpenGraph
    \/ CallModelEnter
    \/ ModelChunk
    \/ ModelReturns
    \/ ToolsNodeEnter
    \/ ToolStart
    \/ ToolReturns
    \/ ToolFailsCaught
    \/ ToolRaisesHandled
    \/ ToolsNodeExit
    \/ GraphEnd
    \/ SaveAssistantMessage
    \/ UpdateLastMessageAtAssistant
    \/ CountMessages
    \/ GetSession
    \/ EmitDone
    \/ TitleTaskStarts
    \/ TitleTaskSucceeds
    \/ TitleTaskRaises

\* the event loop resumes a coroutine that is ready to run
SpecLive == Init /\ [][NextLive]_vars /\ WF_vars(GeneratorStep) /\ WF_vars(TitleTaskNext)

\* ==================================================== concurrent turns
\* Two turns run in the same process, each in its own asyncio task: the
\* relay loop of event_stream over the graph, with search_user_documents as
\* the tool that reads the identity of its turn.
TurnChunkShapes ==
    {c \in ChunkShapes : /\ c.content \in {"", "a"}
                          /\ c.tool \in {None, "search_user_documents"}
                          /\ (c.content # "" \/ c.tool # None)}

\* the relay loop of turn t consumes one astream_events event
TurnRelay(t, raw) == RelayAll(turn[t].loop, StreamGraphMap(raw))

TurnToolCallsRequested(t) ==
    Cardinality(SelectIdx(turn[t].loop.events, LAMBDA e : e.type = "tool_thinking"))

\* the user input of turn t
TurnInput(t) == IF t = 1 THEN "q1" ELSE "q2"

\* event_stream before the graph: the user message is saved and committed
TurnSaveUserMessage(t) ==
    /\ turn[t].pc = "save_user"
    /\ stored' = IF turn[t].config.thread_id # None /\ db
                 THEN [stored EXCEPT ![turn[t].config.thread_id] =
                          save_message(@, "user", TurnInput(t))]
                 ELSE stored
    /\ turn' = [turn EXCEPT ![t].pc = "enter"]
    /\ UNCHANGED <<single, context, search, pool, aux>>

TurnCallModelEnter(t) ==
    /\ turn[t].pc = "enter"
    /\ turn[t].model_calls < MaxModelCalls
    /\ turn' = [turn EXCEPT ![t].pc = "streaming",
                            ![t].model_calls = @ + 1,
                            ![t].tool_calls = <<>>]
    /\ UNCHANGED <<single, context, stored, search, pool, aux>>

TurnModelChunk(t) ==
    /\ turn[t].pc = "streaming"
    /\ turn[t].chunks < MaxChunks
    /\ \E chunk \in TurnChunkShapes :
         /\ chunk.tool # None =>
              turn[t].model_calls < MaxModelCalls /\ TurnToolCallsRequested(t) < MaxToolCalls
         /\ turn' = [turn EXCEPT
                ![t].loop = TurnRelay(t, [event |-> "on_chat_model_stream",
                                          name |-> "ChatOpenAI", chunk |-> chunk]),
                ![t].tool_calls = IF chunk.tool # None THEN Append(@, chunk.tool) ELSE @,
                ![t].chunks = @ + 1]
    /\ UNCHANGED <<single, context, stored, search, pool, aux>>

TurnModelReturns(t) ==
    /\ turn[t].pc = "streaming"
    /\ turn' = [turn EXCEPT ![t].pc = IF should_continue(turn[t].tool_calls) = "tools"
                                      THEN "tools" ELSE "END"]
    /\ UNCHANGED <<single, context, stored, search, pool, aux>>

\* tools_node_with_config: _graph_config.set(config)
TurnToolsNodeEnter(t) ==
    /\ turn[t].pc = "tools"
    /\ context' = ContextSet(context, t, turn[t].config)
    /\ turn' = [turn EXCEPT
           ![t].loop = TurnRelay(t, [event |-> "on_chain_start", name |-> "tools"]),
           ![t].pc = "ready"]
    /\ UNCHANGED <<single, stored, search, pool, aux>>

\* the tool starts and resolves its identity; whether the config reaches the
\* tool as an argument is up to the tool-calling library
TurnToolStart(t) ==
    /\ turn[t].pc = "ready"
    /\ turn[t].tool_calls # <<>>
    /\ \E passed \in BOOLEAN :
         turn' = [turn EXCEPT
           ![t].resolved = Append(@, extract_user_and_session_id(
                                        IF passed THEN turn[t].config ELSE NoConfig,
                                        ContextGet(context, t))),
           ![t].loop = TurnRelay(t, [event |-> "on_tool_start",
                                     name |-> Head(turn[t].tool_calls)]),
           ![t].pc = "running"]
    /\ UNCHANGED <<single, context, stored, search, pool, aux>>

TurnToolReturns(t) ==
    /\ turn[t].pc = "running"
    /\ turn' = [turn EXCEPT
           ![t].loop = TurnRelay(t, [event |-> "on_tool_end",
                                     name |-> Head(turn[t].tool_calls),
                                     output |-> [text |-> "result", len |-> 20]]),
           ![t].tool_calls = Tail(@),
           ![t].pc = "ready"]
    /\ UNCHANGED <<single, context, stored, search, pool, aux>>

\* tools_node_with_config, finally clause: _graph_config.set(None)
TurnToolsNodeExit(t) ==
    /\ turn[t].pc = "ready"
    /\ turn[t].tool_calls = <<>>
    /\ context' = ContextSet(context, t, NoConfig)
    /\ turn' = [turn EXCEPT ![t].pc = "enter"]
    /\ UNCHANGED <<single, stored, search, pool, aux>>

\* astream_events of turn t is exhausted
TurnGraphEnd(t) ==
    /\ turn[t].pc = "END"
    /\ turn' = [turn EXCEPT
           ![t].loop.events = IF ~turn[t].loop.has_content
                              THEN Append(@, FallbackEvent) ELSE @,
           ![t].pc = IF should_save_assistant(turn[t].config.thread_id,
                                              turn[t].loop.assistant_response)
                     THEN "save_assistant" ELSE "emit_done"]
    /\ UNCHANGED <<single, context, stored, search, pool, aux>>

\* event_stream after the graph: the assistant message is saved and committed
TurnSaveAssistantMessage(t) ==
    /\ turn[t].pc = "save_assistant"
    /\ stored' = [stored EXCEPT ![turn[t].config.thread_id] =
                     save_message(@, "assistant", turn[t].loop.assistant_response)]
    /\ turn' = [turn EXCEPT ![t].pc = "emit_done"]
    /\ UNCHANGED <<single, context, search, pool, aux>>

TurnEmitDone(t) ==
    /\ turn[t].pc = "emit_done"
    /\ turn' = [turn EXCEPT
           ![t].loop.events = Append(@, DoneEvent(turn[t].loop.token_count)),
           ![t].pc = "finished"]
    /\ UNCHANGED <<single, context, stored, search, pool, aux>>

\* identities of the two turns: they differ in user id or conversation id
TurnIdentities ==
    {<<stream_config("s1", "u1"), stream_config(sid, uid)>> :
        sid \in {None, "s2"}, uid \in {None, "u1", "u2"}}

\* two turns of one user on one conversation
SameConversation == <<stream_config("s1", "u1"), stream_config("s1", "u1")>>

InitTurns ==
    /\ InitSingle /\ session_id = None
    /\ SearchIdle /\ PoolIdle /\ AuxIdle
    /\ \E ids \in TurnIdentities \cup {SameConversation} :
         turn = [t \in Turns |-> NewTurn(ids[t])]
    /\ context = [t \in Turns |-> NoConfig]
    /\ \E n \in {0, 1} : stored = [s \in Conversations |-> PriorMessages(n)]

NextTurns ==
    \E t \in Turns :
        \/ TurnSaveUserMessage(t)
        \/ TurnCallModelEnter(t)
        \/ TurnModelChunk(t)
        \/ TurnModelReturns(t)
        \/ TurnToolsNodeEnter(t)
        \/ TurnToolStart(t)
        \/ TurnToolReturns(t)
        \/ TurnToolsNodeExit(t)
        \/ TurnGraphEnd(t)
        \/ TurnSaveAssistantMessage(t)
        \/ TurnEmitDone(t)

SpecTurns == InitTurns /\ [][NextTurns]_vars

\* ================================================= search_user_documents
ExcerptLimit == 400
NoUserText == "Unable to search documents: User context not available."
NoMatchText == "No relevant information found in your uploaded documents. Try uploading files first, then ask me about them once they're processed."
SearchErrorText(msg) == "Error searching documents: " \o msg
NumStr(n) == <<"1", "2", "3", "4", "5">>[n]
FoundText(n) == "Found " \o NumStr(n) \o " relevant excerpts from your documents:\n"

\* one formatted chunk: file name, content cut at ExcerptLimit plus "..."
Excerpt(i, chunk) ==
    [source |-> i,
     filename |-> IF chunk.file = None THEN "Unknown file" ELSE chunk.file,
     len |-> Min(chunk.len, ExcerptLimit) + (IF chunk.len > ExcerptLimit THEN 3 ELSE 0)]

\* variant: no except clause around the body
search_documents_impl_unguarded(config, context_config, raises, msg, found) ==
    LET id == extract_user_and_session_id(config, context_config)
    IN  IF raises = "import"
        THEN [raised |-> TRUE, text |-> "", excerpts |-> <<>>]
        ELSE IF id.user_id = None
        THEN [raised |-> FALSE, text |-> NoUserText, excerpts |-> <<>>]
        ELSE IF raises = "search"
        THEN [raised |-> TRUE, text |-> "", excerpts |-> <<>>]
        ELSE IF found = <<>>
        THEN [raised |-> FALSE, text |-> NoMatchText, excerpts |-> <<>>]
        ELSE [raised |-> FALSE, text |-> FoundText(Len(found)),
              excerpts |-> [i \in 1..Len(found) |-> Excerpt(i, found[i])]]

\* _search_documents_impl: raises names the step that raises (the imports,
\* or opening the session and searching), msg is str(e)
search_documents_impl(config, context_config, raises, msg, found) ==
    LET id == extract_user_and_session_id(config, context_config)
    IN  IF raises = "import"
        THEN [raised |-> FALSE, text |-> SearchErrorText(msg), excerpts |-> <<>>]
        ELSE IF id.user_id = None
        THEN [raised |-> FALSE, text |-> NoUserText, excerpts |-> <<>>]
        ELSE IF raises = "search"
        THEN [raised |-> FALSE, text |-> SearchErrorText(msg), excerpts |-> <<>>]
        ELSE IF found = <<>>
        THEN [raised |-> FALSE, text |-> NoMatchText, excerpts |-> <<>>]
        ELSE [raised |-> FALSE, text |-> FoundText(Len(found)),
              excerpts |-> [i \in 1..Len(found) |-> Excerpt(i, found[i])]]

\* search_user_documents is called once
SearchCall ==
    /\ ~search.called
    /\ search' = [search EXCEPT
           !.called = TRUE,
           !.result = search_documents_impl(search.config, search.context_config,
                                            search.raises, search.msg, search.chunks)]
    /\ UNCHANGED <<single, turns, pool, aux>>

SearchConfigs == [thread_id : {None, "s1"}, user_id : {None, "u1", "not-a-uuid"}]
SearchChunks ==
    {<<>>, <<[file |-> "a.pdf", len |-> 10]>>, <<[file |-> None, len |-> 401]>>,
     <<[file |-> "a.pdf", len |-> 401], [file |-> "b.txt", len |-> 400]>>}

InitSearch ==
    /\ InitSingle /\ session_id = None
    /\ TurnsIdle /\ PoolIdle /\ AuxIdle
    /\ search \in [config : SearchConfigs, context_config : SearchConfigs,
                    raises : {None, "import", "search"}, msg : {"", "boom"},
                    chunks : SearchChunks, called : {FALSE}, result : {NoResult}]

NextSearch == SearchCall

SpecSearch == InitSearch /\ [][NextSearch]_vars

\* ============================== get_async_checkpointer / get_async_store
MaxRetries == 5
SetupErrors == {"transaction", "relation", "other"}

\* lifespan: init_db
InitDb ==
    /\ app = "init_db"
    /\ app' = "starting"
    /\ UNCHANGED <<single, turns, search, aux, caller, instance, conn_pool, setup_completed,
                   created, pool_env>>

\* init_db raises: nothing in lifespan catches it, the application does not start
InitDbRaises ==
    /\ app = "init_db"
    /\ app' = "failed"
    /\ UNCHANGED <<single, turns, search, aux, caller, instance, conn_pool, setup_completed,
                   created, pool_env>>

\* variant: no except clause around the initialisation call
LifespanYieldUnguarded ==
    /\ app = "starting"
    /\ caller[Startup].pc = "returned"
    /\ app' = "serving"
    /\ UNCHANGED <<single, turns, search, aux, caller, instance, conn_pool, setup_completed,
                   created, pool_env>>

\* lifespan: the initialisation call has returned or its exception was
\* caught and logged; the application starts to serve requests
LifespanYield ==
    /\ app = "starting"
    /\ caller[Startup].pc \in {"returned", "raised"}
    /\ app' = "serving"
    /\ UNCHANGED <<single, turns, search, aux, caller, instance, conn_pool, setup_completed,
                   created, pool_env>>

\* variant: the flag is not consulted, every call runs setup
AfterInstanceAlwaysSetup(c, inst) == [caller EXCEPT ![c].pc = "setup", ![c].attempt = 0]

\* `if not _setup_completed:` and, when it is set, `return _checkpointer`,
\* evaluated without suspension after the instance test
AfterInstance(c, inst) ==
    IF setup_completed
    THEN [caller EXCEPT ![c].pc = "returned", ![c].result = inst]
    ELSE [caller EXCEPT ![c].pc = "setup", ![c].attempt = 0]

\* the call tests the global: with None it builds a pool and awaits open()
GetInstance(c) ==
    /\ caller[c].pc = "idle"
    /\ app = (IF c = Startup THEN "starting" ELSE "serving")
    /\ IF instance # 0
       THEN /\ caller' = AfterInstance(c, instance)
            /\ UNCHANGED <<conn_pool, created>>
       ELSE IF pool_env.kind = "store" /\ ~pool_env.api_key
       THEN /\ caller' = [caller EXCEPT ![c].pc = "raised"]
            /\ UNCHANGED <<conn_pool, created>>
       ELSE /\ conn_pool' = created.pools + 1
            /\ created' = [created EXCEPT !.pools = @ + 1]
            /\ caller' = [caller EXCEPT ![c].pc = "opening"]
    /\ UNCHANGED <<app, single, turns, search, aux, instance, setup_completed, pool_env>>

\* open() returned: the instance is built on the pool the global names now
PoolOpened(c) ==
    /\ caller[c].pc = "opening"
    /\ instance' = created.instances + 1
    /\ created' = [created EXCEPT !.instances = @ + 1]
    /\ caller' = AfterInstance(c, instance')
    /\ UNCHANGED <<app, single, turns, search, aux, conn_pool, setup_completed, pool_env>>

PoolOpenRaises(c) ==
    /\ caller[c].pc = "opening"
    /\ caller' = [caller EXCEPT ![c].pc = "raised"]
    /\ UNCHANGED <<app, single, turns, search, aux, instance, conn_pool, setup_completed, created, pool_env>>

\* setup() of the current attempt succeeds
SetupSucceeds(c) ==
    /\ caller[c].pc = "setup"
    /\ setup_completed' = TRUE
    /\ caller' = [caller EXCEPT ![c].pc = "returned", ![c].result = instance,
                                ![c].tries = @ + 1]
    /\ UNCHANGED <<app, single, turns, search, aux, instance, conn_pool, created, pool_env>>

\* variant: every setup error is retried until the attempts are used up
SetupFailsRetriesAny(c) ==
    /\ caller[c].pc = "setup"
    /\ \E err \in SetupErrors :
         caller' = [caller EXCEPT
            ![c].pc = IF caller[c].attempt < MaxRetries - 1 THEN "setup"
                      ELSE IF err = "other" THEN "raised" ELSE "autocommit",
            ![c].attempt = IF caller[c].attempt < MaxRetries - 1 THEN @ + 1 ELSE @,
            ![c].tries = @ + 1,
            ![c].fallback = err # "other" /\ caller[c].attempt = MaxRetries - 1,
            ![c].err = err]
    /\ UNCHANGED <<app, single, turns, search, aux, instance, conn_pool, setup_completed, created, pool_env>>

\* setup() of the current attempt raises: retry, autocommit fallback or raise
SetupFails(c) ==
    /\ caller[c].pc = "setup"
    /\ \E err \in SetupErrors :
         caller' = [caller EXCEPT
            ![c].pc = IF err = "transaction"
                      THEN (IF caller[c].attempt < MaxRetries - 1 THEN "setup" ELSE "autocommit")
                      ELSE IF err = "relation" THEN "autocommit"
                      ELSE "raised",
            ![c].attempt = IF err = "transaction" /\ caller[c].attempt < MaxRetries - 1
                           THEN @ + 1 ELSE @,
            ![c].tries = @ + 1,
            ![c].fallback = \/ err = "relation"
                            \/ err = "transaction" /\ caller[c].attempt = MaxRetries - 1,
            ![c].err = err]
    /\ UNCHANGED <<app, single, turns, search, aux, instance, conn_pool, setup_completed, created, pool_env>>

\* the setup over a separate autocommit connection
AutocommitSucceeds(c) ==
    /\ caller[c].pc = "autocommit"
    /\ setup_completed' = TRUE
    /\ caller' = [caller EXCEPT ![c].pc = "returned", ![c].result = instance]
    /\ UNCHANGED <<app, single, turns, search, aux, instance, conn_pool, created, pool_env>>

AutocommitRaises(c) ==
    /\ caller[c].pc = "autocommit"
    /\ caller' = [caller EXCEPT ![c].pc = "raised"]
    /\ UNCHANGED <<app, single, turns, search, aux, instance, conn_pool, setup_completed, created, pool_env>>

InitPool ==
    /\ InitSingle /\ session_id = None
    /\ TurnsIdle /\ SearchIdle /\ AuxIdle
    /\ caller = [c \in Callers |-> [pc |-> "idle", attempt |-> 0, tries |-> 0, fallback |-> FALSE, result |-> 0,
                                  err |-> "none"]]
    /\ instance = 0
    /\ conn_pool = 0
    /\ setup_completed = FALSE
    /\ created = [pools |-> 0, instances |-> 0]
    /\ pool_env \in {[kind |-> "checkpointer", api_key |-> TRUE],
                      [kind |-> "store", api_key |-> TRUE],
                      [kind |-> "store", api_key |-> FALSE]}
    /\ app = "init_db"

NextPool ==
    \/ InitDb
    \/ InitDbRaises
    \/ LifespanYield
    \/ \E c \in Callers :
        \/ GetInstance(c)
        \/ PoolOpened(c)
        \/ PoolOpenRaises(c)
        \/ SetupSucceeds(c)
        \/ SetupFails(c)
        \/ AutocommitSucceeds(c)
        \/ AutocommitRaises(c)

SpecPool == InitPool /\ [][NextPool]_vars

\* ------------------------------------------------ MessageService on chat_messages
\* The table holds rows of every conversation.  id is the generated primary
\* key; created_at is the server default now(), the start time of the
\* inserting transaction, so transactions that start in the same tick of the
\* database clock store the same value.
Roles == {"user", "assistant"}
Row(id, sid, role, at) ==
    [id |-> id, session_id |-> sid, role |-> role, content |-> "m", created_at |-> at]

Clock == IF rows = <<>> THEN 0 ELSE rows[Len(rows)].created_at
Now == IF rows = <<>> THEN {1} ELSE {Clock, Clock + 1}

\* save_message: add, commit, refresh
StoreSave(sid, role) ==
    /\ Len(rows) < MaxPrior + 1
    /\ \E at \in Now : rows' = Append(rows, Row(Len(rows) + 1, sid, role, at))
    /\ UNCHANGED <<single, turns, search, pool, extras, failure, auth, loaded>>

SessionRows(table, sid) == {i \in 1..Len(table) : table[i].session_id = sid}

\* the row orders  WHERE session_id = sid ORDER BY created_at DESC LIMIT n
\* can produce: rows of equal created_at come in either order
select_desc_limit(table, sid, n) ==
    LET S == SessionRows(table, sid)
        k == Min(n, Cardinality(S))
    IN  IF k = 0 THEN {<<>>}
        ELSE {d \in [1..k -> S] :
                /\ \A p, q \in 1..k : p < q =>
                      /\ d[p] # d[q]
                      /\ table[d[p]].created_at >= table[d[q]].created_at
                /\ \A j \in S \ {d[p] : p \in 1..k} :
                      \A p \in 1..k : table[j].created_at <= table[d[p]].created_at}

reversed(d) == [i \in 1..Len(d) |-> d[Len(d) + 1 - i]]

\* variant: the rows are returned as selected, newest first
get_last_n_rows_unreversed(table, sid, n) ==
    {[i \in 1..Len(d) |-> table[d[i]]] : d \in select_desc_limit(table, sid, n)}

\* get_last_n_messages on the table: every list it can return
get_last_n_rows(table, sid, n) ==
    {[i \in 1..Len(d) |-> table[reversed(d)[i]]] : d \in select_desc_limit(table, sid, n)}

LoadSizes == {1, 2, HistoryWindow}

StoreLoad(sid, n) ==
    /\ \E r \in get_last_n_rows(rows, sid, n) :
          loaded' = [called |-> TRUE, conversation |-> sid, n |-> n,
                     result |-> r, of |-> Len(rows)]
    /\ UNCHANGED <<single, turns, search, pool, extras, failure, auth, rows>>

InitStore ==
    /\ InitSingle /\ session_id = None
    /\ TurnsIdle /\ SearchIdle /\ PoolIdle /\ AuxIdle

NextStore ==
    \/ \E sid \in Conversations, role \in Roles : StoreSave(sid, role)
    \/ \E sid \in Conversations, n \in LoadSizes : StoreLoad(sid, n)

SpecStore == InitStore /\ [][NextStore]_vars

\* ------------------------------------------------ event_stream: the except clauses
\* The error text is kept as its lines: str(e), then the lines of
\* traceback.format_exc().
Environments == {"development", "staging", "production"}
ExceptionKinds == {"TimeoutError", "ValueError", "RuntimeError"}
ExceptionTexts == {"", "boom", "connection refused"}
RaisedAt == {"load", "save_user", "graph", "save_assistant"}

TracebackHeader == "Traceback (most recent call last):"
format_exc(kind, text, step) == <<TracebackHeader, step, kind, text>>

\* except asyncio.TimeoutError / except Exception as e
error_event(environment, kind, text, step) ==
    IF kind = "TimeoutError"
    THEN [type |-> "error", error |-> <<TimeoutMessage>>]
    ELSE [type |-> "error", error |-> <<text>> \o format_exc(kind, text, step)]

HandleException ==
    /\ ~failure.handled
    /\ failure' = [failure EXCEPT
                     !.handled = TRUE,
                     !.event = error_event(failure.environment, failure.kind,
                                           failure.text, failure.step)]
    /\ UNCHANGED <<single, turns, search, pool, extras, msgstore, auth>>

InitErr ==
    /\ InitSingle /\ session_id = None
    /\ TurnsIdle /\ SearchIdle /\ PoolIdle /\ StoreIdle /\ AuthIdle /\ ExtrasIdle
    /\ failure \in [environment : Environments, kind : ExceptionKinds,
                    text : ExceptionTexts, step : RaisedAt,
                    handled : {FALSE}, event : {NoEvent}]

NextErr == HandleException

SpecErr == InitErr /\ [][NextErr]_vars

\* ------------------------------------------------ AuthService and get_current_user
\* the users table: one active password account, one inactive password
\* account, one active account that has only a Google identity
NoHash == <<>>
hash_password(password) == <<"bcrypt", password>>
verify_password(plain_password, hashed_password) ==
    hashed_password = hash_password(plain_password)

Accounts ==
    {[id |-> "u1", email |-> "a@x", password_hash |-> hash_password("pw1"), is_active |-> TRUE],
     [id |-> "u2", email |-> "b@x", password_hash |-> hash_password("pw2"), is_active |-> FALSE],
     [id |-> "u3", email |-> "g@x", password_hash |-> NoHash, is_active |-> TRUE]}
UserIds == {u.id : u \in Accounts}
Emails == {"a@x", "b@x", "g@x", "nobody@x"}
Passwords == {"pw1", "pw2"}

\* iat 0 is the second in which the session was created, 1 any later second
IssueTimes == {0, 1}
create_access_token(uid, sid, iat) ==
    [type |-> "access", user_id |-> uid, session_id |-> sid, iat |-> iat]
create_refresh_token(uid, sid, iat) ==
    [type |-> "refresh", user_id |-> uid, session_id |-> sid, iat |-> iat]

NoPayload == [valid |-> FALSE, user_id |-> "none", session_id |-> 0]
\* variant: the type field of the payload is not compared
verify_token_any_type(token, token_type) ==
    IF token.type \in {"access", "refresh"}
    THEN [valid |-> TRUE, user_id |-> token.user_id, session_id |-> token.session_id]
    ELSE NoPayload

verify_token(token, token_type) ==
    IF token.type = token_type
    THEN [valid |-> TRUE, user_id |-> token.user_id, session_id |-> token.session_id]
    ELSE NoPayload

_hash_refresh_token(token) == <<"sha256", token>>

\* the tokens a client can present: anything handed out, or garbage
Presented ==
    {Garbage} \cup
    UNION {{create_access_token(p.user_id, p.session_id, p.iat),
            create_refresh_token(p.user_id, p.session_id, p.iat)} : p \in issued}

_get_session_by_id(sess, sid) == {r \in sess : r.id = sid}
_get_session_by_refresh_token(sess, token) ==
    {r \in sess : r.refresh_token_hash = _hash_refresh_token(token)}
_get_user_by_id(uid) == {u \in Accounts : u.id = uid}
_get_user_by_email(email) == {u \in Accounts : u.email = email}

Ok == [result |-> "ok", message |-> ""]
Unauthorized(message) == [result |-> "UnauthorizedError", message |-> message]

\* create_token_response without existing_session_id: a new session row
\* holding the hash of the refresh token returned with it
NewSession(uid) ==
    /\ session_count < MaxSessions
    /\ session_count' = session_count + 1
    /\ sessions' = sessions \cup
          {[id |-> session_count + 1, user_id |-> uid,
            refresh_token_hash |->
                _hash_refresh_token(create_refresh_token(uid, session_count + 1, 0)),
            is_active |-> TRUE]}
    /\ issued' = issued \cup {[user_id |-> uid, session_id |-> session_count + 1, iat |-> 0]}

\* variant: the account's active flag is tested before the password
login_outcome_active_first(email, password) ==
    LET found == _get_user_by_email(email) IN
    IF found = {} THEN Unauthorized("Invalid email or password")
    ELSE LET user == CHOOSE u \in found : TRUE IN
         IF ~user.is_active THEN Unauthorized("Account is inactive")
         ELSE IF user.password_hash = NoHash
                 \/ ~verify_password(password, user.password_hash)
              THEN Unauthorized("Invalid email or password")
              ELSE Ok

\* login, up to the point where the token response is built
login_outcome(email, password) ==
    LET found == _get_user_by_email(email) IN
    IF found = {} THEN Unauthorized("Invalid email or password")
    ELSE LET user == CHOOSE u \in found : TRUE IN
         IF user.password_hash = NoHash
            \/ ~verify_password(password, user.password_hash)
         THEN Unauthorized("Invalid email or password")
         ELSE IF ~user.is_active THEN Unauthorized("Account is inactive")
              ELSE Ok

Login(email, password) ==
    LET o == login_outcome(email, password)
        found == _get_user_by_email(email)
    IN  /\ IF o.result = "ok"
           THEN NewSession((CHOOSE u \in found : TRUE).id)
           ELSE UNCHANGED <<sessions, session_count, issued>>
        /\ outcome' = [NoCall EXCEPT !.op = "login", !.email = email,
                                     !.password = password,
                                     !.result = o.result, !.message = o.message]
        /\ UNCHANGED <<single, turns, search, pool, extras, msgstore, failure>>

\* google_auth for an account that already has the Google identity
GoogleAuth(uid) ==
    /\ \E u \in _get_user_by_id(uid) : u.password_hash = NoHash
    /\ NewSession(uid)
    /\ outcome' = [NoCall EXCEPT !.op = "google_auth", !.user_id = uid, !.result = "ok"]
    /\ UNCHANGED <<single, turns, search, pool, extras, msgstore, failure>>

\* variant: the session found by the token's hash is not tested for is_active
refresh_outcome_ignores_active(sess, token) ==
    LET payload == verify_token(token, "refresh")
        session == _get_session_by_refresh_token(sess, token)
        user == _get_user_by_id(payload.user_id)
    IN  IF ~payload.valid THEN Unauthorized("Invalid refresh token")
        ELSE IF payload.user_id = "none" THEN Unauthorized("Invalid token payload")
        ELSE IF payload.session_id # 0 /\ session = {}
             THEN Unauthorized("Session expired or invalid")
        ELSE IF user = {} \/ \E u \in user : ~u.is_active
             THEN Unauthorized("User not found or inactive")
        ELSE Ok

\* refresh_tokens, up to the point where the token response is built
refresh_outcome(sess, token) ==
    LET payload == verify_token(token, "refresh")
        session == _get_session_by_refresh_token(sess, token)
        user == _get_user_by_id(payload.user_id)
    IN  IF ~payload.valid THEN Unauthorized("Invalid refresh token")
        ELSE IF payload.user_id = "none" THEN Unauthorized("Invalid token payload")
        ELSE IF payload.session_id # 0
                /\ (session = {} \/ \E r \in session : ~r.is_active)
             THEN Unauthorized("Session expired or invalid")
        ELSE IF user = {} \/ \E u \in user : ~u.is_active
             THEN Unauthorized("User not found or inactive")
        ELSE Ok

\* on success create_token_response(existing_session_id) hands out a new pair
\* and leaves the session row, its stored hash included, as it is
RefreshTokens(token) ==
    LET o == refresh_outcome(sessions, token) IN
    /\ IF o.result = "ok"
       THEN \E iat \in IssueTimes :
               issued' = issued \cup {[user_id |-> token.user_id,
                                       session_id |-> token.session_id, iat |-> iat]}
       ELSE UNCHANGED issued
    /\ outcome' = [NoCall EXCEPT !.op = "refresh_tokens", !.token = token,
                                 !.result = o.result, !.message = o.message]
    /\ UNCHANGED <<single, turns, search, pool, extras, msgstore, failure, sessions, session_count>>

_deactivate_session(sess, sid) ==
    {IF r.id = sid THEN [r EXCEPT !.is_active = FALSE] ELSE r : r \in sess}

\* logout with the token of the Authorization header
Logout(token) ==
    LET payload == verify_token(token, "access") IN
    /\ sessions' = IF payload.valid /\ payload.session_id # 0
                   THEN _deactivate_session(sessions, payload.session_id)
                   ELSE sessions
    /\ outcome' = [NoCall EXCEPT !.op = "logout", !.token = token, !.result = "ok",
                                 !.message = "Logged out successfully"]
    /\ UNCHANGED <<single, turns, search, pool, extras, msgstore, failure, session_count, issued>>

\* _get_user_sessions(user_id, is_active=True) reads one page of 50
SessionPage == 50
DeleteAllSessions(uid) ==
    /\ \E page \in SUBSET {r \in sessions : r.user_id = uid /\ r.is_active} :
          /\ Cardinality(page)
                = Min(SessionPage,
                      Cardinality({r \in sessions : r.user_id = uid /\ r.is_active}))
          /\ sessions' = {IF r \in page THEN [r EXCEPT !.is_active = FALSE] ELSE r :
                             r \in sessions}
    /\ outcome' = [NoCall EXCEPT !.op = "delete_all_sessions", !.user_id = uid,
                                 !.result = "ok"]
    /\ UNCHANGED <<single, turns, search, pool, extras, msgstore, failure, session_count, issued>>

\* variant: the owner of the session is not compared with the caller
delete_session_outcome_any_owner(sess, sid, uid) ==
    IF _get_session_by_id(sess, sid) = {}
    THEN [result |-> "NotFoundError", message |-> "Session not found"]
    ELSE Ok

delete_session_outcome(sess, sid, uid) ==
    LET session == _get_session_by_id(sess, sid) IN
    IF session = {}
    THEN [result |-> "NotFoundError", message |-> "Session not found"]
    ELSE IF \E r \in session : r.user_id # uid
         THEN [result |-> "ForbiddenError", message |-> "Cannot delete other user's session"]
         ELSE Ok

DeleteSession(sid, uid) ==
    LET o == delete_session_outcome(sessions, sid, uid) IN
    /\ sessions' = IF o.result = "ok"
                   THEN sessions \ _get_session_by_id(sessions, sid)
                   ELSE sessions
    /\ outcome' = [NoCall EXCEPT !.op = "delete_session", !.session_id = sid,
                                 !.user_id = uid, !.result = o.result,
                                 !.message = o.message]
    /\ UNCHANGED <<single, turns, search, pool, extras, msgstore, failure, session_count, issued>>

get_current_user(sess, token) ==
    LET payload == verify_token(token, "access")
        session == _get_session_by_id(sess, payload.session_id)
        user == _get_user_by_id(payload.user_id)
    IN  IF ~payload.valid
        THEN [result |-> "HTTP 401", message |-> "Invalid or expired token"]
        ELSE IF payload.user_id = "none"
        THEN [result |-> "HTTP 401", message |-> "Invalid token payload"]
        ELSE IF payload.session_id # 0
                /\ (session = {} \/ \E r \in session : ~r.is_active)
        THEN [result |-> "HTTP 401", message |-> "Session expired or invalid"]
        ELSE IF user = {} \/ \E u \in user : ~u.is_active
        THEN [result |-> "HTTP 401", message |-> "User not found or inactive"]
        ELSE Ok

GetCurrentUser(token) ==
    LET o == get_current_user(sessions, token) IN
    /\ outcome' = [NoCall EXCEPT !.op = "get_current_user", !.token = token,
                                 !.result = o.result, !.message = o.message]
    /\ UNCHANGED <<single, turns, search, pool, extras, msgstore, failure,
                   sessions, session_count, issued>>

InitAuth ==
    /\ InitSingle /\ session_id = None
    /\ TurnsIdle /\ SearchIdle /\ PoolIdle /\ AuxIdle

NextAuth ==
    \/ \E email \in Emails, password \in Passwords : Login(email, password)
    \/ \E uid \in UserIds : GoogleAuth(uid)
    \/ \E token \in Presented : RefreshTokens(token)
    \/ \E token \in Presented : Logout(token)
    \/ \E uid \in UserIds : DeleteAllSessions(uid)
    \/ \E sid \in 1..MaxSessions, uid \in UserIds : DeleteSession(sid, uid)
    \/ \E token \in Presented : GetCurrentUser(token)

SpecAuth == InitAuth /\ [][NextAuth]_vars

\* ------------------------------------------------ delete_all_sessions on many sessions
\* The sessions of one user are interchangeable for delete_all_sessions, so
\* the table is kept as the number of active sessions of each user.
\* every successful login, registration or Google sign-in adds an active session
SessionCreated(uid) ==
    /\ logins.active[uid] < MaxActive
    /\ logins' = [active |-> [logins.active EXCEPT ![uid] = @ + 1],
                  op |-> "create_token_response", user_id |-> uid, reported |-> 0]
    /\ UNCHANGED <<single, turns, search, pool, msgstore, failure, auth, relayed, thread, upload, chat>>

\* _get_user_sessions(user_id, is_active=True): the page it returns holds at
\* most limit = 50 sessions
_get_user_sessions(active, limit) == Min(limit, active)

\* _deactivate_all_user_sessions deactivates the sessions of that page and
\* returns their number, which delete_all_sessions puts into its message
CountedDeleteAll(uid) ==
    LET page == _get_user_sessions(logins.active[uid], SessionPage) IN
    /\ logins' = [active |-> [logins.active EXCEPT ![uid] = @ - page],
                  op |-> "delete_all_sessions", user_id |-> uid, reported |-> page]
    /\ UNCHANGED <<single, turns, search, pool, msgstore, failure, auth, relayed, thread, upload, chat>>

InitLogins ==
    /\ InitSingle /\ session_id = None
    /\ TurnsIdle /\ SearchIdle /\ PoolIdle /\ AuxIdle

NextLogins ==
    \/ \E uid \in DOMAIN logins.active : SessionCreated(uid)
    \/ \E uid \in DOMAIN logins.active : CountedDeleteAll(uid)

SpecLogins == InitLogins /\ [][NextLogins]_vars

\* ------------------------------------------------ stream_graph on on_tool_end
\* a stringified output is known by its text and its length; its prefix of
\* n characters has the same text and the length n
Prefix(str, n) == [text |-> str.text, len |-> n]

\* the on_tool_end events astream_events can deliver for a tool call
ToolEndEvents ==
    {[event |-> "on_tool_end", name |-> tool, output |-> [text |-> tool, len |-> len]] :
        tool \in Tools, len \in 0..MaxOutputLen}

\* stream_graph yields what its branches make of the event
OnToolEnd ==
    /\ relayed.raw.event = "on_tool_end"
    /\ relayed.yielded = <<>>
    /\ relayed' = [relayed EXCEPT !.yielded = StreamGraphMap(relayed.raw)]
    /\ UNCHANGED <<single, turns, search, pool, msgstore, failure, auth, logins, thread, upload, chat>>

InitRelay ==
    /\ InitSingle /\ session_id = None
    /\ TurnsIdle /\ SearchIdle /\ PoolIdle
    /\ StoreIdle /\ ErrIdle /\ AuthIdle /\ LoginsIdle /\ ThreadIdle /\ UploadIdle /\ ChatIdle
    /\ relayed \in {[raw |-> raw, yielded |-> <<>>] : raw \in ToolEndEvents}

NextRelay == OnToolEnd

SpecRelay == InitRelay /\ [][NextRelay]_vars

\* ------------------------------------------------ call_model and the thread state
SystemMessage(content) == [type |-> "system", content |-> content, tool_calls |-> FALSE]
HumanMessage(content) == [type |-> "human", content |-> content, tool_calls |-> FALSE]
AIMessage(content, calls) == [type |-> "ai", content |-> content, tool_calls |-> calls]
ToolMessage(content) == [type |-> "tool", content |-> content, tool_calls |-> FALSE]

\* system_content: the base prompt, with the file notice when the session has
\* files and with the memory context when the store returned memories
SystemContents == {"base", "base+files", "base+memories", "base+files+memories"}

\* variant: the system message is prepended whatever the first message is
model_input_always_prepends(msgs, system_content) ==
    <<SystemMessage(system_content)>> \o msgs

\* call_model: the list handed to llm_with_tools.ainvoke
model_input(msgs, system_content) ==
    IF msgs = <<>> \/ msgs[1].type # "system"
    THEN <<SystemMessage(system_content)>> \o msgs
    ELSE [msgs EXCEPT ![1] = SystemMessage(system_content)]

\* the rows of the conversation that stream_graph converts when checkpointing
\* is off: the user messages and the assistant's answers
FromRows(msgs) ==
    LET kept(m) == m.type = "human" \/ (m.type = "ai" /\ ~m.tool_calls)
    IN  SelectSeq(msgs, kept)

\* stream_graph starts the graph: with a checkpointer the input message is
\* added to the messages of the checkpoint, without one the state starts
\* from the converted rows
StartTurn ==
    /\ thread.node = "idle"
    /\ \E checkpointed \in BOOLEAN :
         LET before == IF checkpointed THEN thread.messages ELSE FromRows(thread.messages) IN
         /\ Len(before) + 2 <= MaxThreadLen
         /\ thread' = [thread EXCEPT !.messages = Append(before, HumanMessage("q")),
                                     !.node = "call_model"]
    /\ UNCHANGED <<single, turns, search, pool, msgstore, failure, auth, logins, relayed, upload, chat>>

\* call_model: the state update is the response alone; should_continue routes
\* on its tool calls
CallModel ==
    /\ thread.node = "call_model"
    /\ \E system_content \in SystemContents, calls \in BOOLEAN :
         /\ calls => Len(thread.messages) + 3 <= MaxThreadLen
         /\ thread' = [messages |-> Append(thread.messages,
                                           AIMessage(IF calls THEN "" ELSE "a", calls)),
                       passed |-> model_input(thread.messages, system_content),
                       node |-> IF calls THEN "tools" ELSE "idle"]
    /\ UNCHANGED <<single, turns, search, pool, msgstore, failure, auth, logins, relayed, upload, chat>>

\* the tools node adds the ToolMessage of the call
ToolsNode ==
    /\ thread.node = "tools"
    /\ thread' = [thread EXCEPT !.messages = Append(@, ToolMessage("r")),
                                !.node = "call_model"]
    /\ UNCHANGED <<single, turns, search, pool, msgstore, failure, auth, logins, relayed, upload, chat>>

InitThread ==
    /\ InitSingle /\ session_id = None
    /\ TurnsIdle /\ SearchIdle /\ PoolIdle /\ AuxIdle

NextThread == StartTurn \/ CallModel \/ ToolsNode

SpecThread == InitThread /\ [][NextThread]_vars

\* ------------------------------------------------ DocumentProcessor.process_file
\* ProcessingStatus
PENDING == "pending"
PROCESSING == "processing"
COMPLETED == "completed"
FAILED == "failed"

\* variant: no outer except clause, an exception ends the execution as it is
ExceptMissing(u) == [u EXCEPT !.pc = "done", !.pending = 0]

\* an exception reaches the outer except clause; a commit that raised has
\* rolled the transaction back and expunged the objects that were pending
Except(u) == [u EXCEPT !.pc = "except", !.pending = 0]

\* file.processing_status = status; await db.commit(); the next statement is
\* at next, reached unless the commit raises
SetStatus(u, status, next) ==
    {[u EXCEPT !.status = status, !.pc = next], Except(u)}

UploadUnchanged ==
    UNCHANGED <<single, turns, search, pool, msgstore, failure, auth, logins, relayed, thread,
                chat>>

\* the route has stored the row and scheduled process_file, or the row was
\* deleted before the task ran
ProcessFileStarts ==
    /\ upload.pc = "idle"
    /\ \E in_db \in BOOLEAN : upload' = [upload EXCEPT !.in_db = in_db, !.pc = "select"]
    /\ UploadUnchanged

\* the row is selected; without it the execution returns
SelectFile ==
    /\ upload.pc = "select"
    /\ upload' \in {IF upload.in_db THEN [upload EXCEPT !.pc = "path"]
                                    ELSE [upload EXCEPT !.pc = "done"],
                    Except(upload)}
    /\ UploadUnchanged

\* os.path.exists(file.file_path): FAILED without the file, else PROCESSING
CheckPath ==
    /\ upload.pc = "path"
    /\ \E exists \in BOOLEAN :
         upload' \in IF exists THEN SetStatus(upload, PROCESSING, "convert")
                               ELSE SetStatus(upload, FAILED, "done")
    /\ UploadUnchanged

\* the text a conversion or a read returns: meaningful or shorter than 10 characters
Texts == {"text", "short"}

\* the Docling conversion under wait_for: it returns, Docling is missing, it
\* times out, or it raises
Convert ==
    /\ upload.pc = "convert"
    /\ \/ \E text \in Texts :
            upload' = [upload EXCEPT !.text = text, !.read_by = "docling", !.pc = "content"]
       \/ upload' = [upload EXCEPT !.pc = "read_as_text"]
       \/ upload' \in SetStatus(upload, FAILED, "done")
       \/ upload' = [upload EXCEPT !.pc = "fallback"]
    /\ UploadUnchanged

\* except ImportError: read_as_text, whose exception is not caught here
ReadAsText ==
    /\ upload.pc = "read_as_text"
    /\ \/ \E text \in Texts :
            upload' = [upload EXCEPT !.text = text, !.read_by = "read_as_text", !.pc = "content"]
       \/ upload' = Except(upload)
    /\ UploadUnchanged

\* except Exception: read_as_text inside its own try
FallbackRead ==
    /\ upload.pc = "fallback"
    /\ \/ \E text \in Texts :
            upload' = [upload EXCEPT !.text = text, !.read_by = "fallback", !.pc = "content"]
       \/ upload' \in SetStatus(upload, FAILED, "done")
    /\ UploadUnchanged

\* `if not markdown or len(markdown.strip()) < 10`
CheckContent ==
    /\ upload.pc = "content"
    /\ upload' \in IF upload.text = "short" THEN SetStatus(upload, FAILED, "done")
                                            ELSE {[upload EXCEPT !.pc = "chunk"]}
    /\ UploadUnchanged

\* chunk_text: no chunks is a failure, an exception goes to the outer clause
ChunkText ==
    /\ upload.pc = "chunk"
    /\ \/ \E n \in 1..MaxFileChunks : upload' = [upload EXCEPT !.chunks = n, !.pc = "embed"]
       \/ upload' \in SetStatus(upload, FAILED, "done")
       \/ upload' = Except(upload)
    /\ UploadUnchanged

\* batch_embeddings inside its own try; then every chunk is added to the session
EmbedAndAdd ==
    /\ upload.pc = "embed"
    /\ \/ upload' = [upload EXCEPT !.pending = upload.chunks, !.pc = "commit"]
       \/ upload' \in SetStatus(upload, FAILED, "done")
    /\ UploadUnchanged

\* file.processing_status = COMPLETED; await db.commit(): the chunks and the
\* status are written by one transaction
CommitCompleted ==
    /\ upload.pc = "commit"
    /\ upload' \in {[upload EXCEPT !.status = COMPLETED, !.stored = @ + upload.pending,
                                   !.pending = 0, !.pc = "done"],
                    Except(upload)}
    /\ UploadUnchanged

\* the outer except clause: UPDATE ... SET processing_status = FAILED and
\* commit, which writes what the session still holds; its own exception is
\* logged
UpdateFailed ==
    /\ upload.pc = "except"
    /\ \/ upload' = [upload EXCEPT !.status = IF upload.in_db THEN FAILED ELSE @,
                                   !.stored = @ + upload.pending,
                                   !.pending = 0, !.pc = "done"]
       \/ upload' = [upload EXCEPT !.update_failed = TRUE, !.pending = 0, !.pc = "done"]
    /\ UploadUnchanged

InitFile ==
    /\ InitSingle /\ session_id = None
    /\ TurnsIdle /\ SearchIdle /\ PoolIdle /\ AuxIdle

NextFile ==
    \/ ProcessFileStarts
    \/ SelectFile
    \/ CheckPath
    \/ Convert
    \/ ReadAsText
    \/ FallbackRead
    \/ CheckContent
    \/ ChunkText
    \/ EmbedAndAdd
    \/ CommitCompleted
    \/ UpdateFailed

SpecFile == InitFile /\ [][NextFile]_vars

\* ------------------------------------------------ POST /chat/stream
\* chat.sessions[id] is the user_id of the conversation id; a conversation id
\* of 0 stands for a request without session_id
ChatUsers == {"u1", "u2"}
SessionIds == 0..(MaxChats + 1)

ChatUnchanged ==
    UNCHANGED <<single, turns, search, pool, msgstore, failure, auth, logins, relayed, thread,
                upload>>

\* POST /chat/sessions: the conversation belongs to the authenticated user
CreateSession(uid) ==
    /\ Len(chat.sessions) < MaxChats
    /\ chat' = [chat EXCEPT !.sessions = Append(@, uid)]
    /\ ChatUnchanged

\* variant: the conversation is looked up by its id alone
get_session_any_user(sess, sid, uid) == sid \in DOMAIN sess

\* session_service.get_session: the row with this id and this user_id;
\* FALSE stands for NotFoundError
get_session(sess, sid, uid) == sid \in DOMAIN sess /\ sess[sid] = uid

\* chat_stream: the conversation is looked up for the authenticated user
\* before the StreamingResponse over event_stream is built
ChatStream(uid, sid) ==
    /\ chat.request.pc \in {"idle", "done", "not_found"}
    /\ Cardinality(chat.messages) + 2 <= 2 * MaxChats
    /\ chat' = [chat EXCEPT !.request =
                   [NoRequest EXCEPT !.user_id = uid, !.session_id = sid,
                                     !.pc = IF sid = 0 \/ get_session(chat.sessions, sid, uid)
                                            THEN "load" ELSE "not_found"]]
    /\ ChatUnchanged

\* event_stream: get_last_n_messages when a session_id was given
StreamLoads ==
    /\ chat.request.pc = "load"
    /\ chat' = [chat EXCEPT !.request.loaded = (chat.request.session_id # 0),
                            !.request.pc = "save_user"]
    /\ ChatUnchanged

\* save_message of the request: nothing is stored without a session_id
SavedBy(req, role) ==
    IF req.session_id = 0 THEN {}
    ELSE {[session_id |-> req.session_id, user_id |-> req.user_id, role |-> role,
           n |-> Cardinality({m \in chat.messages : m.session_id = req.session_id}) + 1]}

StreamSavesUser ==
    /\ chat.request.pc = "save_user"
    /\ chat' = [chat EXCEPT !.messages = @ \cup SavedBy(chat.request, "user"),
                            !.request.saved = @ + Cardinality(SavedBy(chat.request, "user")),
                            !.request.pc = "agent"]
    /\ ChatUnchanged

\* stream_graph is iterated
StreamInvokesAgent ==
    /\ chat.request.pc = "agent"
    /\ chat' = [chat EXCEPT !.request.agent = TRUE, !.request.pc = "save_assistant"]
    /\ ChatUnchanged

\* the assistant message is saved when there is a response, then done
StreamSavesAssistant ==
    /\ chat.request.pc = "save_assistant"
    /\ \E has_response \in BOOLEAN :
         LET new == IF has_response THEN SavedBy(chat.request, "assistant") ELSE {} IN
         chat' = [chat EXCEPT !.messages = @ \cup new,
                              !.request.saved = @ + Cardinality(new),
                              !.request.pc = "done"]
    /\ ChatUnchanged

InitChat ==
    /\ InitSingle /\ session_id = None
    /\ TurnsIdle /\ SearchIdle /\ PoolIdle /\ AuxIdle

NextChat ==
    \/ \E uid \in ChatUsers : CreateSession(uid)
    \/ \E uid \in ChatUsers, sid \in SessionIds : ChatStream(uid, sid)
    \/ StreamLoads
    \/ StreamSavesUser
    \/ StreamInvokesAgent
    \/ StreamSavesAssistant

SpecChat == InitChat /\ [][NextChat]_vars

\* =================================================================== claims
Last(s) == s[Len(s)]
TerminalIdx == SelectIdx(events, IsTerminal)
ErrorIdx == SelectIdx(events, LAMBDA e : e.type = "error")
Finished == pc = "finished"
EndsIn(type) == Finished /\ events # <<>> /\ Last(events).type = type
ErrorStep == error_cause.step
ErrorKind == error_cause.kind

\* what the turn itself has stored in the conversation
TurnMessages == SubSeq(messages, prior_count + 1, Len(messages))
StoredByTurn(role) == SelectSeq(TurnMessages, LAMBDA m : m.role = role)
AssistantStored == StoredByTurn("assistant") # <<>>
UserStored == StoredByTurn("user") = <<Message("user", user_input)>>

\* content units relayed from token events, and fallback units
ContentEvents == SelectSeq(events, LAMBDA e : e.type = "content")
TokenUnits == SelectSeq(ContentEvents, LAMBDA e : e.content # FallbackContent)
FallbackIdx == SelectIdx(events, LAMBDA e : e = FallbackEvent)

\* C1: a turn consumed to its end has exactly one terminal unit (done or
\* error) and that unit is the last one yielded, whichever step raised;
\* before the end no terminal unit has been yielded.
C1_OneTerminalLast ==
    /\ Cardinality(TerminalIdx) <= 1
    /\ \A i \in TerminalIdx : i = Len(events)
    /\ Finished <=> Cardinality(TerminalIdx) = 1

\* a turn that ends in error after the assistant save
C1_Witness == EndsIn("error") /\ ErrorStep = "get_session" /\ TokenUnits # <<>>

\* content of the content unit carrying sequence number k
ContentOfSeqNo(k) ==
    IF \E i \in 1..Len(ContentEvents) : ContentEvents[i].token = k
    THEN ContentEvents[CHOOSE i \in 1..Len(ContentEvents) : ContentEvents[i].token = k].content
    ELSE "<missing>"
ConcatBySeqNo == Concat([k \in 1..Len(ContentEvents) |-> ContentOfSeqNo(k - 1)])

\* C2: a turn with a conversation id and a database session that ends in
\* done after at least one token event has stored exactly one assistant
\* message, whose content is the concatenation of the content units in
\* sequence-number order.
C2_StoredEqualsConcat ==
    (EndsIn("done") /\ Persisting /\ Last(events).total_tokens >= 1)
        => StoredByTurn("assistant") = <<Message("assistant", ConcatBySeqNo)>>

C2_Witness ==
    /\ EndsIn("done") /\ Persisting
    /\ Len(TokenUnits) = 2
    /\ StoredByTurn("assistant") = <<Message("assistant", "ab")>>

\* C3: in a turn without error the fallback content unit is yielded exactly
\* once, immediately before done, when no token event was relayed, and not
\* at all when one was; it never appears together with a token unit.
C3_FallbackIffNoToken ==
    /\ Cardinality(FallbackIdx) <= 1
    /\ FallbackIdx # {} => TokenUnits = <<>>
    /\ EndsIn("done") =>
         /\ (TokenUnits = <<>>) <=> (Cardinality(FallbackIdx) = 1)
         /\ \A i \in FallbackIdx : i = Len(events) - 1

\* tools were used, the model then produced no text
C3_Witness ==
    /\ EndsIn("done")
    /\ FallbackIdx # {}
    /\ \E i \in 1..Len(events) : events[i].type = "tool_result"

\* C4: every failing tool invocation yields a tool_result unit whose text
\* describes the failure, and the failure of the tool does not end the turn.
C4_FailingToolReported ==
    /\ \A i \in 1..Len(failed_tools) :
         /\ failed_tools[i].at \in 1..Len(events)
         /\ events[failed_tools[i].at].type = "tool_result"
         /\ events[failed_tools[i].at].result.text \in FailureTexts
    /\ ErrorStep # "tool"

C6_ErrorStoresNoAssistant == EndsIn("error") => ~AssistantStored

\* stream_graph has been called
GraphInvoked == node # "START" \/ ErrorStep = "open_graph"

\* C7: in a turn with a conversation id the user message is stored and
\* last activity updated before stream_graph is invoked, and the user
\* message is still stored when the graph invocation has failed.
C7_UserMessageFirst ==
    session_id # None =>
        /\ (pc = "open_graph" \/ GraphInvoked) => (UserStored /\ last_message_at >= 1)
        /\ (Finished /\ ErrorStep \in {"open_graph", "model", "tool"}) => UserStored

C7_Witness ==
    /\ session_id # None /\ EndsIn("error") /\ ErrorStep = "model"
    /\ UserStored /\ last_message_at = 1

\* C8: an assistant message is stored only after the graph's stream ended
\* without error and only with non-empty accumulated text; the second
\* last-activity update follows that save and nothing else; a turn without
\* token events stores no assistant message.
C8_AssistantSavedAfterStream ==
    /\ AssistantStored =>
         /\ node = "END" /\ pc # "stream"
         /\ assistant_response # ""
         /\ StoredByTurn("assistant") = <<Message("assistant", assistant_response)>>
    /\ last_message_at <= 2
    /\ last_message_at = 2 => AssistantStored
    /\ (AssistantStored /\ pc \in {"count", "get_session", "emit_done"}) => last_message_at = 2
    /\ (AssistantStored /\ EndsIn("done")) => last_message_at = 2
    /\ TokenUnits = <<>> => ~AssistantStored

C8_Witness ==
    /\ EndsIn("done") /\ AssistantStored /\ last_message_at = 2
    /\ \E i \in 1..Len(events) : events[i].type = "tool_result"

\* C9: at the end of a turn the title task has been scheduled exactly when
\* an assistant message was stored in the turn and the message count read
\* afterwards is at least 3.
C9_TitleIffCount ==
    Finished =>
        (title_task # "none"
           <=> (AssistantStored /\ message_count >= MAX_MESSAGE_COUNT_THRESHOLD))

\* a step of generate_title_task
TitleTaskStep == title_task # "none" /\ title_task' # title_task

\* C10: done is yielded whatever state the title task is in, no step of the
\* title task changes the units delivered or the position of event_stream,
\* and a turn that scheduled the task ends in done with no error unit.
C10_TitleTaskDetached ==
    /\ [](pc = "emit_done" => ENABLED EmitDone)
    /\ [](title_task # "none" =>
            /\ ErrorIdx = {}
            /\ Finished => Last(events) = DoneEvent(token_count))
    /\ [][TitleTaskStep => (events' = events /\ pc' = pc)]_vars

\* done was delivered and the title task failed afterwards
C10_Witness == EndsIn("done") /\ title_task = "failed"
\* units relayed from stream_graph events: every data unit that is neither
\* the comment, the fallback nor a terminal unit
RelayedUnits ==
    SelectSeq(events, LAMBDA e : e.type \notin {"comment", "done", "error"} /\ e # FallbackEvent)
SameEvent(unit, ev) ==
    IF ev.type = "token"
    THEN unit.type = "content" /\ unit.content = ev.content
    ELSE unit = ev

\* C11: at every moment the data units relayed so far are, one unit per
\* event and in the same order, the events stream_graph has yielded so far
\* (token, tool_start, tool_thinking, tool_call, tool_result): none is
\* reordered, duplicated, merged or held back; every tool_call unit follows
\* the tool_start unit of its tools-node execution.
C11_RelayedAsYielded ==
    /\ Len(RelayedUnits) = Len(yielded)
    /\ \A i \in 1..Len(yielded) : SameEvent(RelayedUnits[i], yielded[i])
    /\ \A i \in 1..Len(events) :
         events[i].type = "tool_call" =>
           \E j \in 1..(i - 1) :
             /\ events[j].type = "tool_start"
             /\ \A k \in (j + 1)..(i - 1) : events[k].type \in {"tool_call", "tool_result"}

\* a chunk with text and a tool name, then the tool ran, then more text
C11_Witness ==
    /\ EndsIn("done")
    /\ Len(yielded) >= 5
    /\ {yielded[i].type : i \in 1..Len(yielded)} =
         {"token", "tool_start", "tool_thinking", "tool_call", "tool_result"}

\* token events stream_graph has yielded
YieldedTokens == SelectSeq(yielded, LAMBDA e : e.type = "token")
TotalTokens == Last(events).total_tokens

\* C13 as stated: total_tokens of done equals the number of content units
\* sent to the client in the turn.
C13_TotalIsContentCount == EndsIn("done") => TotalTokens = Len(ContentEvents)

\* C13: total_tokens of done equals the number of content units relayed
\* from token events; the synthetic fallback unit is not counted, so a turn
\* that sent only the fallback reports 0.
C13_TotalIsTokenCount ==
    EndsIn("done") =>
        /\ TotalTokens = Len(YieldedTokens)
        /\ TotalTokens = Len(ContentEvents) - Cardinality(FallbackIdx)
        /\ FallbackIdx # {} => TotalTokens = 0 /\ Len(ContentEvents) = 1

C13_Witness == EndsIn("done") /\ TotalTokens = 2 /\ Len(yielded) > 2

\* C14: the first unit of the stream is the connection comment, whatever
\* follows it, an error unit for a failed history load or user-message save
\* included.
C14_ConnectedFirst == events # <<>> => events[1] = Connected

\* C15: the graph starts at call_model; call_model is left for tools when
\* the response has at least one tool call and for END otherwise; tools is
\* left for call_model only; END is entered only from call_model with a
\* response without tool calls, and is never left.
C15_GraphEdges ==
    [][node' # node =>
         \/ node = "START" /\ node' = "call_model"
         \/ node = "call_model" /\ tool_calls # <<>> /\ node' = "tools"
         \/ node = "call_model" /\ tool_calls = <<>> /\ node' = "END"
         \/ node = "tools" /\ node' = "call_model"]_vars

\* tools ran once, the second model response had no tool call
C15_Witness ==
    /\ node = "END" /\ model_calls = 2
    /\ \E i \in 1..Len(yielded) : yielded[i].type = "tool_result"

\* C16: a turn in which no step raises and whose consumer keeps reading
\* eventually reaches END and eventually yields done (the model stops asking
\* for tools after finitely many responses).
C16_TurnReachesDone ==
    [](ErrorStep = None /\ pc # "cancelled") => <>(node = "END" /\ EndsIn("done"))

\* done after a tool round trip and a stored assistant message
C16_Witness ==
    /\ node = "END" /\ EndsIn("done") /\ ErrorStep = None
    /\ model_calls = 2 /\ AssistantStored

\* C19: when the consumer leaves before the stream of stream_graph is
\* exhausted, no assistant message is stored and no title task is scheduled,
\* then or later, and the stored user message stays.
C19_CancelStoresNothingMore ==
    cancelled_at \in {"open_graph", "stream"} =>
        /\ ~AssistantStored
        /\ title_task = "none"
        /\ Persisting => UserStored

\* the consumer left after text had been relayed
C19_Witness ==
    /\ cancelled_at = "stream" /\ Persisting
    /\ assistant_response # "" /\ UserStored

\* content units of turn t relayed from token events
TurnTokenUnits(t) ==
    SelectSeq(turn[t].loop.events,
              LAMBDA e : e.type = "content" /\ e.content # FallbackContent)

\* C12: in every turn the content units relayed from token events carry the
\* sequence numbers 0, 1, 2, ... in emission order, without gap or repeat;
\* each turn numbers from 0, also when turns run concurrently.
C12_SequenceNumbers ==
    \A t \in Turns :
        /\ \A i \in 1..Len(TurnTokenUnits(t)) : TurnTokenUnits(t)[i].token = i - 1
        /\ turn[t].loop.token_count = Len(TurnTokenUnits(t))

\* both turns are streaming, one has relayed two tokens and the other one
C12_Witness ==
    /\ turn[1].pc = "streaming" /\ turn[2].pc = "streaming"
    /\ Len(TurnTokenUnits(1)) = 2 /\ Len(TurnTokenUnits(2)) = 1

\* the identity a turn was started with
OwnIdentity(t) == [user_id |-> turn[t].config.user_id, session_id |-> turn[t].config.thread_id]

\* C17: whatever the interleaving of two turns with different identities,
\* every tool invocation resolves the user id and conversation id of its own
\* turn: never those of the other turn and never a missing identity because
\* the other turn's tools node cleared the context variable.
C17_OwnIdentity ==
    \A t \in Turns : \A i \in 1..Len(turn[t].resolved) :
        turn[t].resolved[i] = OwnIdentity(t)

\* both tools nodes are active at once and both tools have resolved
C17_Witness ==
    /\ turn[1].pc = "running" /\ turn[2].pc = "running"
    /\ turn[1].resolved # <<>> /\ turn[2].resolved # <<>>
    /\ OwnIdentity(1) # OwnIdentity(2)

\* the identity the search resolves from its inputs
SearchIdentity == extract_user_and_session_id(search.config, search.context_config)
SearchRaisesAt ==
    IF search.raises = "search" /\ SearchIdentity.user_id = None THEN None ELSE search.raises

\* C18: search_user_documents never raises and never returns the empty
\* string: the 'User context not available' text when no user id resolves,
\* the 'No relevant information found' text when the search returns no
\* chunk, the 'Error searching documents' text when a step raises, the
\* formatted excerpts otherwise; the text for no match differs from the
\* text for a failure.
C18_SearchTexts ==
    search.called =>
        LET r == search.result
        IN  /\ ~r.raised
            /\ r.text # ""
            /\ SearchRaisesAt # None <=> r.text = SearchErrorText(search.msg)
            /\ (SearchRaisesAt = None /\ SearchIdentity.user_id = None) <=> r.text = NoUserText
            /\ (SearchRaisesAt = None /\ SearchIdentity.user_id # None /\ search.chunks = <<>>)
                   <=> r.text = NoMatchText
            /\ (SearchRaisesAt = None /\ SearchIdentity.user_id # None /\ search.chunks # <<>>)
                   <=> (/\ search.chunks # <<>>
                        /\ r.text = FoundText(Len(search.chunks))
                        /\ Len(r.excerpts) = Len(search.chunks)
                        /\ \A i \in 1..Len(r.excerpts) :
                             r.excerpts[i].len <= ExcerptLimit + 3)

\* the user id comes from the context variable and the search raises
C18_Witness ==
    /\ search.called
    /\ search.config.user_id = None /\ search.context_config.user_id = "u1"
    /\ search.raises = "search"
    /\ search.result.text = SearchErrorText("")

\* C20: however the callers of get_async_checkpointer (or get_async_store)
\* interleave before the first initialisation has finished, at most one pool
\* and at most one instance are ever constructed and all callers that return
\* receive the same instance.
C20_OneInstance ==
    /\ created.pools <= 1
    /\ created.instances <= 1
    /\ \A c, d \in Callers :
         (caller[c].pc = "returned" /\ caller[d].pc = "returned")
            => caller[c].result = caller[d].result

\* the callers other than lifespan
Requests == Callers \ {Startup}
\* caller c makes the first call after a startup whose initialisation raised
FirstCallAfterFailedStartup(c) ==
    /\ app = "serving" /\ caller[Startup].pc = "raised"
    /\ \A d \in Requests : caller[d].pc = "idle"
    /\ caller'[c].pc # "idle"
StartupSurvives ==
    (app = "starting" /\ caller[Startup].pc = "raised")
        => (ENABLED LifespanYield /\ ~setup_completed)

\* C21 as stated: when the initialisation raises during startup, startup
\* still completes, the flag is false, and the next call attempts setup
\* again on the instance and pool that exist, constructing nothing new.
C21_NextCallRetriesAndReuses ==
    /\ []StartupSurvives
    /\ [][\A c \in Requests : FirstCallAfterFailedStartup(c) =>
             (caller'[c].pc = "setup" /\ created' = created
              /\ instance' = instance /\ conn_pool' = conn_pool)]_vars

\* C21: when the initialisation raises during startup, startup still
\* completes and the flag is false. If setup was what raised, the instance
\* exists and the next call attempts setup again on it, constructing
\* nothing; if opening the pool raised, no instance was assigned and the next
\* call constructs a new pool; if the API key is missing the next call raises
\* again before any setup.
C21_NextCallRetries ==
    /\ []StartupSurvives
    /\ [][\A c \in Requests : FirstCallAfterFailedStartup(c) =>
             IF instance # 0
             THEN (caller'[c].pc = "setup" /\ created' = created
                   /\ instance' = instance /\ conn_pool' = conn_pool)
             ELSE IF pool_env.kind = "store" /\ ~pool_env.api_key
             THEN caller'[c].pc = "raised" /\ created' = created
             ELSE (caller'[c].pc = "opening" /\ created'.pools = created.pools + 1
                   /\ conn_pool' # conn_pool)]_vars

\* startup failed in setup; a request retries setup on the same instance
C21_Witness ==
    /\ app = "serving" /\ caller[Startup].pc = "raised" /\ caller[Startup].tries = MaxRetries
    /\ \E c \in Requests : caller[c].pc = "setup"
    /\ created = [pools |-> 1, instances |-> 1]

\* C22: a call returns an instance only with the setup-completed flag true;
\* the flag, once true, stays true; a call that starts when the flag is
\* true returns without running setup.
C22_ReturnOnlyAfterSetup ==
    /\ [](\A c \in Callers :
            caller[c].pc = "returned" => (setup_completed /\ caller[c].result # 0))
    /\ [][setup_completed => setup_completed']_vars
    /\ [][\A c \in Callers :
             (setup_completed /\ caller[c].pc = "idle" /\ caller'[c].pc # "idle")
                => (caller'[c].pc = "returned" /\ caller'[c].tries = 0)]_vars

\* setup succeeded through the fallback; a later call returned without setup
C22_Witness ==
    \E c, d \in Callers :
        /\ caller[c].pc = "returned" /\ caller[c].fallback
        /\ caller[d].pc = "returned" /\ caller[d].tries = 0

\* prior messages handed to the graph in front of the user input
GraphPrior == SubSeq(graph_input.messages, 1, Len(graph_input.messages) - 1)

\* C23: in every turn at most one context mode is active: prior messages
\* reach stream_graph and the graph only when checkpointing is disabled, a
\* checkpointer is attached only when checkpointing is enabled and the turn
\* has a conversation id, and never both.
C23_OneContextMode ==
    node # "START" =>
        /\ graph_input.previous_messages # <<>> => ~graph_input.use_checkpointing
        /\ GraphPrior # <<>> => ~graph_input.use_checkpointing
        /\ graph_input.checkpointer => (graph_input.use_checkpointing /\ session_id # None)
        /\ ~(graph_input.checkpointer /\ GraphPrior # <<>>)
        /\ graph_input.messages[Len(graph_input.messages)] = Message("user", user_input)

\* a conversation with stored history: loaded, not passed, checkpointer attached
C23_Witness ==
    /\ node # "START" /\ previous_messages # <<>>
    /\ graph_input.checkpointer /\ GraphPrior = <<>>

\* number of stored messages of a conversation with the given role and content
CountStored(sid, role, content) ==
    Cardinality({i \in 1..Len(stored[sid]) : stored[sid][i] = Message(role, content)})
\* both turns run on conversation s1 and have ended in done with assistant text
BothDoneOnOneConversation ==
    \A t \in Turns :
        /\ turn[t].config.thread_id = "s1"
        /\ turn[t].pc = "finished"
        /\ turn[t].loop.assistant_response # ""
\* what the conversation held before the turns: its leading prior messages
PriorKept(sid) ==
    \E n \in {0, 1} :
        /\ Len(stored[sid]) = n + 4
        /\ SubSeq(stored[sid], 1, n) = PriorMessages(n)

\* C24: two turns run concurrently on one conversation and both end in done
\* with assistant text: the conversation then holds what it held before,
\* both user messages and both assistant messages; none is lost or
\* overwritten.
C24_BothTurnsStored ==
    BothDoneOnOneConversation =>
        /\ PriorKept("s1")
        /\ \A t \in Turns : CountStored("s1", "user", TurnInput(t)) = 1
        /\ \A t \in Turns :
             CountStored("s1", "assistant", turn[t].loop.assistant_response)
                = Cardinality({u \in Turns : turn[u].loop.assistant_response
                                               = turn[t].loop.assistant_response})

\* the saves interleaved: user 1, user 2, assistant 2, assistant 1
C24_Witness ==
    /\ BothDoneOnOneConversation
    /\ stored["s1"] = <<Message("user", "q1"), Message("user", "q2"),
                        Message("assistant", "a"), Message("assistant", "aa")>>
    /\ turn[1].loop.assistant_response = "aa"

\* ---------------------------------------------------------------- C25
\* the load answered the table as it stands, on the conversation of the
\* latest save
LoadedAfterSave ==
    /\ loaded.called
    /\ loaded.n >= 1
    /\ rows # <<>>
    /\ loaded.of = Len(rows)
    /\ loaded.conversation = Last(rows).session_id

\* C25: after a message is saved and the most recent N messages (N >= 1) of
\* its conversation are loaded with no write in between, the last entry of
\* the returned list is exactly the message just saved, whatever the
\* conversation held before.
C25_SavedIsLast ==
    LoadedAfterSave =>
        /\ loaded.result # <<>>
        /\ Last(loaded.result) = Last(rows)

\* ---------------------------------------------------------------- C26
LoadedTable == SubSeq(rows, 1, loaded.of)
LoadedOf == {LoadedTable[i] : i \in SessionRows(LoadedTable, loaded.conversation)}
LoadedRows == {loaded.result[p] : p \in DOMAIN loaded.result}

HasTrace(event) == \E i \in DOMAIN event.error : event.error[i] = TracebackHeader

\* C27: for an exception that is not a timeout the error event carries the
\* exception text, and a stack trace only when the environment is not
\* production.
C27_TraceOnlyOutsideProduction ==
    (failure.handled /\ failure.kind # "TimeoutError") =>
        /\ failure.event.type = "error"
        /\ Head(failure.event.error) = failure.text
        /\ HasTrace(failure.event) => failure.environment # "production"

\* ---------------------------------------------------------------- C28
\* the session was created and is now deactivated or deleted
Revoked(sid) ==
    /\ sid \in 1..session_count
    /\ ~\E r \in sessions : r.id = sid /\ r.is_active

\* C28: refresh_tokens succeeds only when the token verifies as a refresh
\* token and the session found by the token's hash exists and is active; a
\* session that was deactivated (logout, delete_all_sessions) or deleted
\* (delete_session) stays so, and from then on every refresh with its token
\* fails with UnauthorizedError and every use of an access token bound to it
\* is rejected by get_current_user.
C28_RevokedSessionStaysOut ==
    /\ []((outcome.op = "refresh_tokens" /\ outcome.result = "ok") =>
            /\ verify_token(outcome.token, "refresh").valid
            /\ \E r \in _get_session_by_refresh_token(sessions, outcome.token) :
                  r.is_active)
    /\ []((outcome.op = "refresh_tokens" /\ Revoked(outcome.token.session_id)) =>
            outcome.result = "UnauthorizedError")
    /\ []((outcome.op = "get_current_user" /\ Revoked(outcome.token.session_id)) =>
            outcome.result = "HTTP 401")
    /\ [][\A sid \in 1..MaxSessions : Revoked(sid) => Revoked(sid)']_vars

\* a session that was refreshed once, then deactivated, and whose original
\* refresh token is refused
C28_Witness ==
    /\ outcome.op = "refresh_tokens"
    /\ outcome.token = create_refresh_token("u1", 1, 0)
    /\ outcome.result = "UnauthorizedError"
    /\ [user_id |-> "u1", session_id |-> 1, iat |-> 1] \in issued
    /\ \E r \in sessions : r.id = 1 /\ ~r.is_active

\* ---------------------------------------------------------------- C29
CredentialsCorrect(email, password) ==
    \E u \in _get_user_by_email(email) : verify_password(password, u.password_hash)

\* C29: login raises UnauthorizedError 'Invalid email or password' for an
\* unknown email and for a wrong password alike, and 'Account is inactive'
\* only when the credentials are correct and the account is inactive; a
\* failing login creates no session and hands out no tokens.
C29_LoginFailures ==
    [][outcome'.op = "login" =>
         /\ ~CredentialsCorrect(outcome'.email, outcome'.password) =>
               /\ outcome'.result = "UnauthorizedError"
               /\ outcome'.message = "Invalid email or password"
         /\ outcome'.message = "Account is inactive" =>
               /\ outcome'.result = "UnauthorizedError"
               /\ CredentialsCorrect(outcome'.email, outcome'.password)
               /\ \E u \in _get_user_by_email(outcome'.email) : ~u.is_active
         /\ outcome'.result # "ok" =>
               UNCHANGED <<sessions, session_count, issued>>]_vars

\* the inactive account logs in with its password while another session exists
C29_Witness ==
    /\ outcome.op = "login"
    /\ outcome.email = "b@x"
    /\ outcome.password = "pw2"
    /\ outcome.message = "Account is inactive"
    /\ session_count = 1
    /\ Cardinality(sessions) = 1

\* ---------------------------------------------------------------- C30
\* C30: delete_session raises NotFoundError when no session has the id and
\* ForbiddenError when the session belongs to another user, and leaves the
\* stored sessions as they are in both cases; otherwise it removes exactly
\* that session's record.
C30_DeleteSession ==
    [][outcome'.op = "delete_session" =>
         LET target == {r \in sessions : r.id = outcome'.session_id} IN
         IF target = {}
         THEN outcome'.result = "NotFoundError" /\ sessions' = sessions
         ELSE IF \E r \in target : r.user_id # outcome'.user_id
              THEN outcome'.result = "ForbiddenError" /\ sessions' = sessions
              ELSE /\ outcome'.result = "ok"
                   /\ Cardinality(target) = 1
                   /\ sessions' = sessions \ target]_vars

\* one of two sessions deleted by its owner, the other user's session kept
C30_Witness ==
    /\ outcome.op = "delete_session"
    /\ outcome.result = "ok"
    /\ outcome.session_id = 1
    /\ session_count = 2
    /\ \E r \in sessions : r.id = 2 /\ r.user_id # outcome.user_id
    /\ Cardinality(sessions) = 1

\* ---------------------------------------------------------------- C31
\* C31: after delete_all_sessions(user) no session of that user is active,
\* the sessions of the other users are as before, and the count in the
\* message is the number of that user's sessions that were active before.
C31_AllSessionsDeactivated ==
    [][logins'.op = "delete_all_sessions" =>
         /\ logins'.active[logins'.user_id] = 0
         /\ \A u \in DOMAIN logins.active :
               u # logins'.user_id => logins'.active[u] = logins.active[u]
         /\ logins'.reported = logins.active[logins'.user_id]]_vars

\* ---------------------------------------------------------------- C32
\* C32: loading the most recent N messages of one conversation twice with no
\* write in between returns the same ordered list both times, and a load
\* changes no stored message.
C32_LoadTwiceSame ==
    [][/\ loaded' # loaded => rows' = rows
       /\ (/\ loaded.called
           /\ loaded.of = Len(rows)
           /\ rows' = rows
           /\ loaded'.conversation = loaded.conversation
           /\ loaded'.n = loaded.n) => loaded'.result = loaded.result]_vars

\* ---------------------------------------------------------------- C33
TokenTypes == {"access", "refresh"}
MadeBy(token) ==
    IF \E p \in issued : token = create_access_token(p.user_id, p.session_id, p.iat)
    THEN "create_access_token"
    ELSE IF \E p \in issued : token = create_refresh_token(p.user_id, p.session_id, p.iat)
         THEN "create_refresh_token"
         ELSE "nobody"

\* C33: verify_token returns a payload, with the fields given at creation,
\* only for a token that was made by create_access_token or
\* create_refresh_token and whose type is the requested one: an access token
\* is never accepted as a refresh token, a refresh token never as an access
\* token, and a string that does not decode yields None.
C33_VerifyToken ==
    \A token \in Presented, token_type \in TokenTypes :
        LET payload == verify_token(token, token_type) IN
        /\ payload.valid =>
              /\ MadeBy(token) = (IF token_type = "access" THEN "create_access_token"
                                  ELSE "create_refresh_token")
              /\ payload.user_id = token.user_id
              /\ payload.session_id = token.session_id
        /\ MadeBy(token) = "create_access_token" => ~verify_token(token, "refresh").valid
        /\ MadeBy(token) = "create_refresh_token" => ~verify_token(token, "access").valid
        /\ MadeBy(token) = "nobody" => payload = NoPayload

\* a refresh token presented where an access token is required, and refused
C33_Witness ==
    /\ outcome.op = "get_current_user"
    /\ MadeBy(outcome.token) = "create_refresh_token"
    /\ outcome.result = "HTTP 401"
    /\ outcome.message = "Invalid or expired token"
    /\ \E r \in sessions : r.id = outcome.token.session_id /\ r.is_active

\* ---------------------------------------------------------------- C34
InToolsNode == node = "tools" /\ phase \in {"ready", "running"}

\* C34: _graph_config holds the turn's config from the start of a tools-node
\* execution on and is None again once that execution has ended, by return
\* or by an exception; it is never set outside a tools-node execution.
C34_ConfigScoped ==
    /\ graph_config # None =>
          /\ graph_config = "config"
          /\ InToolsNode
          /\ pc \in {"stream", "cancelled"}
    /\ (InToolsNode /\ pc = "stream") => graph_config = "config"

\* a tool call raised out of the tools node and the context variable is None
C34_Witness ==
    /\ error_cause.step = "tool"
    /\ failed_tools # <<>>
    /\ InToolsNode
    /\ pc # "stream"
    /\ graph_config = None

\* ---------------------------------------------------------------- C35
\* C35: within one call the normal setup runs at most MaxRetries times and is
\* run again only after a transaction error; the autocommit setup is entered
\* at most once, after the last transaction error or directly after a
\* missing-relation error; any other error ends the call at once.
C35_SetupAttempts ==
    /\ [](\A c \in Callers : caller[c].tries <= MaxRetries)
    /\ [][\A c \in Callers :
            LET failed == caller[c].pc = "setup" /\ caller'[c].tries # caller[c].tries
                                                 /\ caller'[c].pc # "returned"
            IN  /\ (failed /\ caller'[c].pc = "setup") => caller'[c].err = "transaction"
                /\ (caller'[c].pc = "autocommit" /\ caller[c].pc # "autocommit") =>
                      /\ failed /\ ~caller[c].fallback
                      /\ \/ caller'[c].err = "transaction" /\ caller'[c].tries = MaxRetries
                         \/ caller'[c].err = "relation"
                /\ (failed /\ caller'[c].err = "other") =>
                      (caller'[c].pc = "raised" /\ ~caller'[c].fallback)
                /\ caller[c].pc = "autocommit" =>
                      (caller'[c].pc \in {"autocommit", "returned", "raised"}
                          /\ caller'[c].tries = caller[c].tries)
                /\ caller[c].pc \in {"returned", "raised"} => caller'[c] = caller[c]]_vars

\* one call used all its attempts and went on to the autocommit setup, another
\* went there after its first attempt, a third raised after its first attempt
C35_Witness ==
    \E c, d, e \in Callers :
        /\ caller[c].tries = MaxRetries /\ caller[c].fallback /\ caller[c].err = "transaction"
        /\ caller[d].tries = 1 /\ caller[d].fallback /\ caller[d].err = "relation"
        /\ caller[e].tries = 1 /\ caller[e].pc = "raised" /\ caller[e].err = "other"

\* ---------------------------------------------------------------- C37
\* C37: the result of a tool_result unit is the prefix of the stringified
\* output of length min(len(output), ResultLimit): at most ResultLimit
\* characters, and the whole output when that is no longer than ResultLimit.
C37_ResultIsPrefix ==
    relayed.yielded # <<>> =>
        LET out == relayed.raw.output
            results == {relayed.yielded[i] : i \in 1..Len(relayed.yielded)}
        IN  /\ \E e \in results : e.type = "tool_result"
            /\ \A e \in results :
                  e.type = "tool_result" =>
                      /\ e.result = Prefix(out, IF out.len < ResultLimit THEN out.len ELSE ResultLimit)
                      /\ e.result.len <= ResultLimit
                      /\ out.len <= ResultLimit => e.result = out

\* an output longer than the limit was relayed
C37_Witness ==
    /\ relayed.raw.event = "on_tool_end"
    /\ relayed.raw.output.len > ResultLimit
    /\ relayed.yielded # <<>>
    /\ relayed.yielded[1].result.len = ResultLimit

\* ---------------------------------------------------------------- C38
\* C38: the refresh token handed out by a successful refresh_tokens on a
\* session is itself accepted by refresh_tokens for that session: the hash
\* stored with the session is that of the token issued last.
C38_ReturnedTokenRefreshes ==
    [][(outcome'.op = "refresh_tokens" /\ outcome'.result = "ok") =>
          \A p \in issued' \ issued :
              LET token == create_refresh_token(p.user_id, p.session_id, p.iat) IN
              /\ refresh_outcome(sessions', token).result = "ok"
              /\ \E r \in sessions' :
                    /\ r.id = p.session_id
                    /\ r.refresh_token_hash = _hash_refresh_token(token)]_vars

\* ---------------------------------------------------------------- C36
\* message lists of up to two messages, a system message among the kinds
SampleMessages ==
    {SystemMessage("old"), HumanMessage("q"), AIMessage("a", FALSE), AIMessage("", TRUE),
     ToolMessage("r")}
SampleLists ==
    {<<>>} \cup {<<m>> : m \in SampleMessages}
           \cup {<<m, n>> : m \in SampleMessages, n \in {HumanMessage("q"), AIMessage("a", FALSE)}}

SystemCount(msgs) == Cardinality({i \in 1..Len(msgs) : msgs[i].type = "system"})

\* C36: the list call_model passes to the model holds exactly one system
\* message, at its head: it is put in front of a list that does not start
\* with one and takes the place of the first message of a list that does;
\* the messages of a thread never take up a system message, however many
\* model calls and turns the thread sees.
C36_OneSystemMessage ==
    /\ thread.passed # <<>> =>
          /\ thread.passed[1].type = "system"
          /\ SystemCount(thread.passed) = 1
    /\ SystemCount(thread.messages) = 0
    /\ \A msgs \in SampleLists, c \in SystemContents :
          LET out == model_input(msgs, c)
              leading == msgs # <<>> /\ msgs[1].type = "system"
          IN  /\ out[1] = SystemMessage(c)
              /\ Tail(out) = (IF leading THEN Tail(msgs) ELSE msgs)
              /\ SystemCount(out) = 1

\* the second model call of a later turn on a checkpointed thread
C36_Witness ==
    /\ Len(thread.passed) = 6
    /\ thread.passed[2].type = "human" /\ thread.passed[3].type = "ai"
    /\ thread.passed[4].type = "human" /\ thread.passed[6].type = "tool"
    /\ thread.node = "idle"

\* ---------------------------------------------------------------- C39
\* C39: an execution of process_file on a file that is in the database ends
\* with the status COMPLETED or FAILED unless the update to FAILED itself
\* failed; the status is COMPLETED exactly when the execution stored chunks,
\* and it becomes COMPLETED in the step that stores them.
C39_EndsCompletedOrFailed ==
    /\ [](/\ (upload.pc = "done" /\ upload.in_db /\ ~upload.update_failed)
                => upload.status \in {COMPLETED, FAILED}
          /\ upload.status = FAILED => upload.stored = 0
          /\ upload.status = COMPLETED <=> upload.stored > 0)
    /\ [][(upload'.status = COMPLETED /\ upload.status # COMPLETED)
             => (upload'.stored = upload.stored + upload.chunks /\ upload.chunks > 0
                   /\ upload.status = PROCESSING)]_vars

\* the commit of the chunks raised and the status was updated to FAILED
C39_Witness ==
    /\ upload.pc = "done" /\ upload.status = FAILED
    /\ upload.chunks = MaxFileChunks /\ upload.stored = 0
    /\ ~upload.update_failed

\* ---------------------------------------------------------------- C40
Foreign(req) ==
    /\ req.session_id # 0
    /\ ~(req.session_id \in DOMAIN chat.sessions /\ chat.sessions[req.session_id] = req.user_id)

\* C40: a request to /chat/stream whose conversation id is not a conversation
\* of the authenticated user ends with NotFoundError before a message is
\* loaded or saved and before the agent runs; every stored message was
\* appended by the owner of its conversation.
C40_ForeignConversationRejected ==
    /\ (chat.request.pc # "idle" /\ Foreign(chat.request)) =>
          /\ chat.request.pc = "not_found"
          /\ ~chat.request.loaded
          /\ chat.request.saved = 0
          /\ ~chat.request.agent
    /\ \A m \in chat.messages :
          /\ m.session_id \in DOMAIN chat.sessions
          /\ chat.sessions[m.session_id] = m.user_id

\* a user asked for the conversation of another user, which holds messages
C40_Witness ==
    /\ chat.request.pc = "not_found"
    /\ chat.request.session_id \in DOMAIN chat.sessions
    /\ chat.sessions[chat.request.session_id] # chat.request.user_id
    /\ \E m \in chat.messages : m.session_id = chat.request.session_id

====
